---- MODULE Spec2Model ----
(***************************************************************************)
(* Model of the NuttX framebuffer character driver, drivers/video/fb.c:    *)
(* the per-surface pan-info queues, the poll-waiter arrays, the (single,   *)
(* per-device) vsync-offset watchdog, and the open/close bookkeeping.      *)
(*                                                                         *)
(* Granularity: one action per handler, except where the handler itself    *)
(* leaves the critical section in the middle: fb_remove_paninfo() skips    *)
(* the record inside enter/leave_critical_section and only then calls      *)
(* fb_pollnotify(), which takes the critical section again, so the         *)
(* dequeue is two steps (RemoveSkip, RemoveNotify).                        *)
(*                                                                         *)
(* Queue sizes are counted in records: every circbuf call of the driver    *)
(* moves exactly sizeof(union fb_paninfo_u) bytes and the capacity is a    *)
(* multiple of it, so a byte count is always a whole number of records.    *)
(***************************************************************************)
EXTENDS Integers, Sequences, FiniteSets, TLC

\* ------------------------------------------------------------------ bounds
MaxOverlays     == 1    \* vinfo.noverlays is drawn from 0..MaxOverlays
MaxYres         == 2    \* the hardware's yres is drawn from 1..MaxYres
MaxYresVirtual  == 2    \* yres_virtual is 0 or drawn from yres..MaxYresVirtual
NumRecords      == 2    \* distinct pan-info payloads 1..NumRecords
NumHandles      == 3    \* struct pollfd objects 1..NumHandles
NumFiles        == 2    \* struct file objects 1..NumFiles
MaxTicks        == 1    \* largest vsync offset, in ticks
NumWaiters      == 2    \* handles that poll while dequeues run
MaxHwCalls      == 2    \* each hardware hook is invoked at most this often
MaxFblen        == 2    \* longest framebuffer memory, in bytes

\* ------------------------------------------------------- program constants
CONFIG_VIDEO_FB_NPOLLWAITERS == 2
USEC_PER_TICK   == 10000
UINT8_MOD       == 256

FB_NO_OVERLAY   == 0 - 1
NULL            == 0      \* an empty fds[] entry (handles are 1..NumHandles)
NULLP           == <<>>   \* a null f_priv or fds->priv pointer

Slots    == 0 .. MaxOverlays
Records  == 1 .. NumRecords
Handles  == 1 .. NumHandles
Files    == 1 .. NumFiles
User     == {1}          \* the file the pan and poll callers use
Entries  == 1 .. CONFIG_VIDEO_FB_NPOLLWAITERS
Cells    == 0 .. MaxFblen  \* one cell more than the longest framebuffer
Bytes    == {0, 1}
AllHooks == {"open", "close", "pandisplay", "panoverlay"}
HookConfigs == {{}, AllHooks}

VARIABLES
  vtable_priv,    \* vtable->priv: FALSE = NULL, TRUE = the device instance
  paninfo_count,  \* fb->paninfo_count (0 before registration)
  buf,            \* buf[id]: fb->paninfo[id].buf, [size, q]
  fds,            \* fds[id][i]: fb->paninfo[id].fds[i-1], a handle or NULL
  pollfd_priv,    \* pollfd_priv[h]: fds->priv, NULLP or <<id, i>>
  vsyncoffset,    \* fb->vsyncoffset, ticks
  wdog,           \* fb->wdog: [active, arg, lag]
  crefs,          \* fb->crefs
  f_priv,         \* f_priv[f]: NULLP (not open) or <<priv->overlay>>
  hooks,          \* the optional vtable operations the hardware provides
  dq,             \* fb_remove_paninfo between its two critical sections:
                  \*   <<>> (not there) or <<id>>, the slot to notify
  owed,           \* history: owed[id], the handles that were waiters of
                  \*   slot id at a successful dequeue on it and have been
                  \*   neither signalled nor torn down since
  fifo,           \* history: fifo[id], the payloads that pans queued with
                  \*   success on slot id and no dequeue removed, oldest first
  hwcalls,        \* history: invocations of the hardware's open and close
                  \*   hooks, and how many of them failed
  panic,          \* a DEBUGASSERT fired (build with assertions enabled)
  wild,           \* memory outside the driver's objects was used (build
                  \*   without assertions): what follows is undefined
  devnode,        \* register_driver() succeeded: the device can be opened
  reg,            \* history: what the last fb_register_device() did
  f_pos,          \* filep->f_pos of each file
  fblen,          \* hardware: fblen[id], the length in bytes of the
                  \*   framebuffer memory of slot id
  fbmem,          \* hardware: fbmem[id][c], the byte at address fbmem + c
                  \*   of slot id; the cells from fblen[id] on lie beyond
                  \*   the framebuffer
  out,            \* the caller's side of the last call: whether its output
                  \*   was written, with what, and the hardware operations
                  \*   the call made, in order
  lock,           \* fb->lock: 0 (free) or the task that holds it
  cs,             \* the critical section: 0 (free) or the context inside
  thr,            \* thr[t]: where task (or context) t is in the driver
                  \*   call it is making, step by step
  hwopen,         \* hardware: successes of the open hook minus successes
                  \*   of the close hook
  lastOp          \* the operation that made the last step, and its result

vars == <<vtable_priv, paninfo_count, buf, fds, pollfd_priv, vsyncoffset,
          wdog, crefs, f_priv, hooks, dq, owed, fifo, hwcalls, panic,
          wild, devnode, reg, f_pos, fblen, fbmem, out, lock, cs, thr,
          hwopen, lastOp>>

\* The variables of read, write, seek, mmap and the screen-info queries.
iovars == <<f_pos, fblen, fbmem, out>>

\* The variables of the calls that are modelled step by step.
syncvars == <<lock, cs, thr>>

MkOp(op, slot, ret, info, sig, h, hook) ==
  [op |-> op, slot |-> slot, ret |-> ret, info |-> info, sig |-> sig,
   h |-> h, hook |-> hook]

NoOp == MkOp("none", 0, "OK", 0, {}, 0, "none")

\* ---------------------------------------------------- external collaborators
\* mm/circbuf: a fixed-capacity FIFO byte queue (sizes in records here).
circbuf_init(bytes) == [size |-> bytes, q |-> <<>>]
circbuf_used(c)     == Len(c.q)
circbuf_space(c)    == c.size - circbuf_used(c)
circbuf_is_full(c)  == circbuf_space(c) = 0
\* circbuf_write: [ret |-> records written, buf |-> the buffer afterwards]
circbuf_write(c, info) ==
  IF circbuf_space(c) = 0
    THEN [ret |-> 0, buf |-> c]
    ELSE [ret |-> 1, buf |-> [c EXCEPT !.q = Append(@, info)]]
\* circbuf_peek: [ret |-> records read, info |-> the record read]
circbuf_peek(c) ==
  IF circbuf_used(c) = 0
    THEN [ret |-> 0, info |-> 0]
    ELSE [ret |-> 1, info |-> Head(c.q)]
\* circbuf_skip: [ret |-> records skipped, buf |-> the buffer afterwards]
circbuf_skip(c) ==
  IF circbuf_used(c) = 0
    THEN [ret |-> 0, buf |-> c]
    ELSE [ret |-> 1, buf |-> [c EXCEPT !.q = Tail(@)]]

\* clock.h: microseconds to ticks, rounded.
USEC2TICK(usec) == (usec + (USEC_PER_TICK \div 2)) \div USEC_PER_TICK

\* DEBUGASSERT(cond): the outcomes of the builds. A true condition never
\* panics; a false one panics where assertions are compiled in (TRUE) and
\* is ignored where they are compiled out (FALSE).
DEBUGASSERT(cond) == IF cond THEN {FALSE} ELSE {FALSE, TRUE}

\* No fb_register_device() call yet.
NoReg ==
  [step |-> "none", ret |-> "none", inited |-> 0, uninit |-> <<>>,
   free_paninfo |-> 0, free_fb |-> 0]

\* Nothing written to the caller, no hardware operation called.
NoOut == [written |-> FALSE, data |-> <<>>, calls |-> <<>>, fmt |-> "none"]

\* Every file at position 0 and no framebuffer memory in use.
IoIdle ==
  /\ f_pos = [f \in Files |-> 0]
  /\ fblen = [id \in Slots |-> 0]
  /\ fbmem = [id \in Slots |-> [c \in Cells |-> 0]]
  /\ out = NoOut

\* A task that is in no driver call.
Idle == [pc |-> "idle", op |-> "none", ret |-> "OK", hook |-> "none",
         slot |-> 0, arg |-> 0]

\* ------------------------------------------------------------- Init
InitState ==
  /\ lock = 0
  /\ cs = 0
  /\ thr = [t \in Files |-> Idle]
  /\ hwopen = 0
  /\ vtable_priv = FALSE
  /\ paninfo_count = 0
  /\ buf = [id \in Slots |-> circbuf_init(0)]
  /\ fds = [id \in Slots |-> [i \in Entries |-> NULL]]
  /\ pollfd_priv = [h \in Handles |-> NULLP]
  /\ vsyncoffset = 0
  /\ wdog = [active |-> FALSE, arg |-> 0, lag |-> 0]
  /\ crefs = 0
  /\ f_priv = [f \in Files |-> NULLP]
  /\ dq = <<>>
  /\ owed = [id \in Slots |-> {}]
  /\ fifo = [id \in Slots |-> <<>>]
  /\ hwcalls = [open |-> 0, close |-> 0, failed |-> 0]
  /\ panic = FALSE
  /\ wild = FALSE
  /\ devnode = FALSE
  /\ reg = NoReg
  /\ lastOp = NoOp

Init == InitState /\ hooks \in HookConfigs /\ IoIdle

Registered(id) == id \in Slots /\ id < paninfo_count
Opened(f)      == f_priv[f] # NULLP
\* The handles stored in the waiter array of slot id.
Waiters(id)    == {fds[id][i] : i \in Entries} \ {NULL}

\* ------------------------------------------------------------ helpers
\* A scan that stops one entry short of the array's end.
fb_get_free_pollfds_short(overlay) ==
  LET id   == overlay + 1
      free == {i \in Entries \ {CONFIG_VIDEO_FB_NPOLLWAITERS} :
                 fds[id][i] = NULL}
  IN  IF free = {} THEN NULL
      ELSE CHOOSE i \in free : \A j \in free : i <= j

\* A scan that returns the last empty entry, not the first.
fb_get_free_pollfds_last(overlay) ==
  LET id   == overlay + 1
      free == {i \in Entries : fds[id][i] = NULL}
  IN  IF free = {} THEN NULL
      ELSE CHOOSE i \in free : \A j \in free : i >= j

\* fb_get_free_pollfds: the index of the first empty entry of the slot of
\* `overlay`, or NULL when all CONFIG_VIDEO_FB_NPOLLWAITERS are taken.
fb_get_free_pollfds(overlay) ==
  LET id   == overlay + 1
      free == {i \in Entries : fds[id][i] = NULL}
  IN  IF free = {} THEN NULL
      ELSE CHOOSE i \in free : \A j \in free : i <= j

\* fb_get_panbuf: the slot id of `overlay`.
fb_get_panbuf(overlay) == overlay + 1

\* fb_get_panelinfo: the fbcount it derives from the hardware's answer.
fb_get_panelinfo(hw) ==
  (IF hw.yres_virtual = 0 THEN 1 ELSE hw.yres_virtual \div hw.yres) % UINT8_MOD

\* The answers a hardware driver gives to getplaneinfo/getvideoinfo/
\* getoverlayinfo: a virtual height of 0 (unset) or of at least one screen.
HwInfos ==
  {hw \in [yres : 1 .. MaxYres, yres_virtual : 0 .. MaxYresVirtual] :
     hw.yres_virtual = 0 \/ hw.yres_virtual >= hw.yres}

\* An enqueue that does not look at vtable->priv.
fb_add_paninfo_nocheck(info, overlay) ==
  LET id == fb_get_panbuf(overlay)
      w  == circbuf_write(buf[id], info)
  IN  {[ret   |-> IF p THEN "PANIC"
                  ELSE IF w.ret <= 0 THEN "ENOSPC" ELSE "OK",
        buf   |-> w.buf,
        panic |-> p] : p \in DEBUGASSERT(w.ret = 1)}

\* An enqueue that reports failure only for a negative byte count.
fb_add_paninfo_lt(info, overlay) ==
  LET id == fb_get_panbuf(overlay)
      w  == circbuf_write(buf[id], info)
  IN  IF ~vtable_priv
        THEN {[ret |-> "EINVAL", buf |-> buf[id], panic |-> FALSE]}
        ELSE {[ret   |-> IF p THEN "PANIC"
                         ELSE IF w.ret < 0 THEN "ENOSPC" ELSE "OK",
               buf   |-> w.buf,
               panic |-> p] : p \in DEBUGASSERT(w.ret = 1)}

\* fb_add_paninfo: the outcomes [ret, buf, panic] of queueing `info` on
\* `overlay`; `buf` is the slot's circbuf afterwards. A write of 0 bytes
\* fails the DEBUGASSERT that follows circbuf_write().
fb_add_paninfo(info, overlay) ==
  LET id == fb_get_panbuf(overlay)
      w  == circbuf_write(buf[id], info)
  IN  IF ~vtable_priv
        THEN {[ret |-> "EINVAL", buf |-> buf[id], panic |-> FALSE]}
        ELSE {[ret   |-> IF p THEN "PANIC"
                         ELSE IF w.ret <= 0 THEN "ENOSPC" ELSE "OK",
               buf   |-> w.buf,
               panic |-> p] : p \in DEBUGASSERT(w.ret = 1)}

\* A peek that reports failure only for a negative byte count.
fb_peek_paninfo_lt(overlay) ==
  LET id == fb_get_panbuf(overlay)
      r  == circbuf_peek(buf[id])
  IN  IF ~vtable_priv
        THEN [ret |-> "EINVAL", info |-> 0, buf |-> buf[id]]
        ELSE [ret  |-> IF r.ret < 0 THEN "ENOSPC" ELSE "OK",
              info |-> r.info,
              buf  |-> buf[id]]

\* A peek that consumes the record it returns (circbuf_read).
fb_peek_paninfo_read(overlay) ==
  LET id == fb_get_panbuf(overlay)
      r  == circbuf_peek(buf[id])
  IN  IF ~vtable_priv
        THEN [ret |-> "EINVAL", info |-> 0, buf |-> buf[id]]
        ELSE [ret  |-> IF r.ret <= 0 THEN "ENOSPC" ELSE "OK",
              info |-> r.info,
              buf  |-> circbuf_skip(buf[id]).buf]

\* fb_peek_paninfo: [ret, info, buf] of peeking the oldest record of
\* `overlay`; `buf` is the slot's circbuf afterwards.
fb_peek_paninfo(overlay) ==
  LET id == fb_get_panbuf(overlay)
      r  == circbuf_peek(buf[id])
  IN  IF ~vtable_priv
        THEN [ret |-> "EINVAL", info |-> 0, buf |-> buf[id]]
        ELSE [ret  |-> IF r.ret <= 0 THEN "ENOSPC" ELSE "OK",
              info |-> r.info,
              buf  |-> buf[id]]

\* fb_paninfo_count: the value returned for `overlay`, an error
\* (ret, count 0) or a count (ret "OK").
fb_paninfo_count(overlay) ==
  IF ~vtable_priv THEN [ret |-> "EINVAL", count |-> 0]
  ELSE [ret |-> "OK", count |-> circbuf_used(buf[fb_get_panbuf(overlay)])]

\* A dequeue that reports the skip and leaves the record queued.
fb_remove_paninfo_keep(overlay) ==
  LET c == buf[fb_get_panbuf(overlay)]
  IN  [ret |-> circbuf_skip(c).ret, buf |-> c]

\* A dequeue that drops the newest record instead of the oldest.
fb_remove_paninfo_newest(overlay) ==
  LET c == buf[fb_get_panbuf(overlay)]
  IN  IF circbuf_used(c) = 0
        THEN [ret |-> 0, buf |-> c]
        ELSE [ret |-> 1,
              buf |-> [c EXCEPT !.q = SubSeq(@, 1, Len(@) - 1)]]

\* fb_remove_paninfo, up to leave_critical_section(): [ret, buf] of
\* circbuf_skip() on the slot of `overlay`.
fb_remove_paninfo(overlay) == circbuf_skip(buf[fb_get_panbuf(overlay)])

\* fb_do_pollnotify: the handles poll_notify() posts POLLOUT to, the
\* non-empty entries of slot `id` at the time of the scan.
fb_do_pollnotify(id) == {fds[id][i] : i \in Entries} \ {NULL}

\* wd_start(): (re)arms the device's one watchdog, replacing callback
\* argument and deadline.
wd_start(delay, arg) == [active |-> TRUE, arg |-> arg, lag |-> delay]

\* A notification that never waits for the vsync offset.
fb_pollnotify_sync(id) == [wdog |-> wdog, sig |-> fb_do_pollnotify(id)]

\* fb_pollnotify: what the call does for slot `id`, as
\* [wdog |-> the watchdog afterwards, sig |-> handles signalled].
fb_pollnotify(id) ==
  IF vsyncoffset > 0
    THEN [wdog |-> wd_start(vsyncoffset, id), sig |-> {}]
    ELSE [wdog |-> wdog, sig |-> fb_do_pollnotify(id)]

\* A setup that wakes every waiter of the slot, not only the new one.
fb_poll_notify_all(id, h) ==
  IF ~circbuf_is_full(buf[id]) THEN fb_do_pollnotify(id) \cup {h} ELSE {}

\* fb_poll, setup: the handles signalled once `h` is stored in slot `id`.
fb_poll_notify(id, h) == IF ~circbuf_is_full(buf[id]) THEN {h} ELSE {}

\* A teardown that forgets to clear the entry.
fb_poll_clear_none(h) == fds

\* fb_poll, teardown: the waiter arrays once the entry fds->priv of `h`
\* points to is cleared.
fb_poll_clear(h) ==
  [fds EXCEPT ![pollfd_priv[h][1]][pollfd_priv[h][2]] = NULL]

\* An open that calls the hardware hook every time.
fb_open_always == TRUE

\* fb_open: the hardware open hook is due.
fb_open_first == crefs = 0

\* A close that calls the hardware close hook whatever the count.
fb_close_always == TRUE

\* fb_close: the hardware close hook is due.
fb_close_last == crefs = 1

\* --------------------------------------------------------- registration
\* The negative errors a hardware operation or register_driver() reports.
HwErrors == {"EIO", "ENODEV"}

\* An error path that leaves the first ring buffer alone.
fb_register_unwind_short(step, i) ==
  [uninit       |-> IF step \in {"panelinfo", "register_driver"}
                      THEN [k \in 1 .. i - 1 |-> i - k] ELSE <<>>,
   free_paninfo |-> IF step \in {"panelinfo", "register_driver"}
                      THEN 1 ELSE 0,
   free_fb      |-> 1]

\* fb_register_device, the error labels: what the path entered for the
\* failing `step` releases, `i` being the loop counter at the goto.
\* errout_with_nxmutex and errout_with_paninfo destroy the ring buffers
\* i-1 down to 0 and free the slot array; every label frees the instance.
fb_register_unwind(step, i) ==
  [uninit       |-> IF step \in {"panelinfo", "register_driver"}
                      THEN [k \in 1 .. i |-> i - k] ELSE <<>>,
   free_paninfo |-> IF step \in {"panelinfo", "register_driver"}
                      THEN 1 ELSE 0,
   free_fb      |-> 1]

\* fb_register_device, the value returned when `step` fails with the
\* error e: allocation of the instance returns -ENOMEM, a failing query
\* or register_driver() its error, and a failing allocation of the slot
\* array whatever getvideoinfo() left in ret, which is not negative.
fb_register_ret(step, e) ==
  CASE step = "fb_alloc"      -> "ENOMEM"
    [] step = "paninfo_alloc" -> "OK"
    [] OTHER                  -> e

\* The steps of fb_register_device() that can fail: the two allocations,
\* the two queries of the hardware and register_driver().
AllocSteps == {"fb_alloc", "paninfo_alloc"}
QuerySteps == {"getvideoinfo", "panelinfo", "register_driver"}

\* fb_register_device() up to register_driver(), on hardware that reports
\* `noverlays` overlays and answers hw[id] to the panel-info query of slot
\* id. A failing step returns at once (allocation of the instance) or
\* takes the error path; a call in which none fails leaves the device
\* node registered and vtable->priv still unset.
fb_register_device(noverlays, hw) ==
  /\ ~panic
  /\ UNCHANGED <<syncvars, hwopen>>
  /\ UNCHANGED iovars
  /\ ~wild
  /\ ~devnode
  /\ \/ /\ paninfo_count' = noverlays + 1
        /\ buf' = [id \in Slots |->
                     IF id < noverlays + 1
                       THEN circbuf_init(fb_get_panelinfo(hw[id]))
                       ELSE buf[id]]
        /\ devnode' = TRUE
        /\ reg' = [step |-> "registered", ret |-> "none",
                   inited |-> noverlays + 1, uninit |-> <<>>,
                   free_paninfo |-> 0, free_fb |-> 0]
        /\ lastOp' = MkOp("registering", 0, "OK", 0, {}, 0, "none")
     \/ /\ reg' = [step |-> "fb_alloc",
                   ret |-> fb_register_ret("fb_alloc", "ENOMEM"),
                   inited |-> 0, uninit |-> <<>>,
                   free_paninfo |-> 0, free_fb |-> 0]
        /\ lastOp' = MkOp("register", 0, reg'.ret, 0, {}, 0, "none")
        /\ UNCHANGED <<paninfo_count, buf, devnode>>
     \/ \E step \in QuerySteps \cup {"paninfo_alloc"},
           e \in HwErrors, failing \in 0 .. noverlays :
          LET i == CASE step = "panelinfo"       -> failing
                     [] step = "register_driver" -> noverlays + 1
                     [] OTHER                    -> 0
              u == fb_register_unwind(step, i)
          IN  /\ reg' = [step |-> step,
                         ret |-> fb_register_ret(step, e),
                         inited |-> i, uninit |-> u.uninit,
                         free_paninfo |-> u.free_paninfo,
                         free_fb |-> u.free_fb]
              /\ lastOp' = MkOp("register", 0, reg'.ret, 0, {}, 0,
                                IF step = "paninfo_alloc" THEN "none" ELSE e)
              /\ UNCHANGED <<paninfo_count, buf, devnode>>
  /\ UNCHANGED <<vtable_priv, fds, pollfd_priv, vsyncoffset, wdog, crefs,
                 f_priv, hooks, dq, owed, fifo, hwcalls, panic, wild>>

\* fb_register_device(), the last statements: vtable->priv = fb and the
\* return of OK.
fb_register_return ==
  /\ ~panic
  /\ UNCHANGED <<syncvars, hwopen>>
  /\ UNCHANGED iovars
  /\ ~wild
  /\ devnode
  /\ ~vtable_priv
  /\ vtable_priv' = TRUE
  /\ reg' = [reg EXCEPT !.step = "done", !.ret = "OK"]
  /\ lastOp' = MkOp("register", 0, "OK", 0, {}, 0, "none")
  /\ UNCHANGED <<paninfo_count, buf, fds, pollfd_priv, vsyncoffset, wdog,
                 crefs, f_priv, hooks, dq, owed, fifo, hwcalls, panic, wild,
                 devnode>>

\* ------------------------------------------------------------ open/close
fb_open(f) ==
  /\ ~panic
  /\ UNCHANGED syncvars
  /\ UNCHANGED iovars
  /\ ~wild
  /\ devnode
  /\ ~Opened(f)
  /\ (fb_open_first /\ "open" \in hooks) => hwcalls.open < MaxHwCalls
  /\ \/ \* kmm_zalloc() fails
        /\ lastOp' = MkOp("open", 0, "ENOMEM", 0, {}, 0, "none")
        /\ UNCHANGED <<crefs, f_priv, hwcalls, hwopen>>
     \/ \* the hardware open hook fails
        /\ fb_open_first
        /\ "open" \in hooks
        /\ hwcalls' = [hwcalls EXCEPT !.open = @ + 1, !.failed = @ + 1]
        /\ lastOp' = MkOp("open", 0, "EIO", 0, {}, 0, "err")
        /\ UNCHANGED <<crefs, f_priv, hwopen>>
     \/ /\ hwcalls' = IF fb_open_first /\ "open" \in hooks
                        THEN [hwcalls EXCEPT !.open = @ + 1]
                        ELSE hwcalls
        /\ hwopen' = IF fb_open_first /\ "open" \in hooks
                       THEN hwopen + 1 ELSE hwopen
        /\ crefs' = crefs + 1
        /\ f_priv' = [f_priv EXCEPT ![f] = <<FB_NO_OVERLAY>>]
        /\ lastOp' = MkOp("open", 0, "OK", 0, {}, 0,
                          IF fb_open_first /\ "open" \in hooks
                            THEN "ok" ELSE "none")
  /\ UNCHANGED <<vtable_priv, paninfo_count, buf, fds, pollfd_priv,
                 vsyncoffset, wdog, hooks, dq, owed, fifo, panic,
                 wild, devnode, reg>>

fb_close(f) ==
  /\ ~panic
  /\ UNCHANGED syncvars
  /\ UNCHANGED iovars
  /\ ~wild
  /\ Opened(f)
  /\ (fb_close_last /\ "close" \in hooks) => hwcalls.close < MaxHwCalls
  /\ \/ \* the hardware close hook fails: nothing is released
        /\ fb_close_last
        /\ "close" \in hooks
        /\ hwcalls' = [hwcalls EXCEPT !.close = @ + 1, !.failed = @ + 1]
        /\ \E e \in HwErrors : lastOp' = MkOp("close", 0, e, 0, {}, 0, "err")
        /\ UNCHANGED <<crefs, f_priv, hwopen>>
     \/ /\ hwcalls' = IF fb_close_last /\ "close" \in hooks
                        THEN [hwcalls EXCEPT !.close = @ + 1]
                        ELSE hwcalls
        /\ hwopen' = IF fb_close_last /\ "close" \in hooks
                       THEN hwopen - 1 ELSE hwopen
        /\ crefs' = crefs - 1
        /\ f_priv' = [f_priv EXCEPT ![f] = NULLP]
        /\ lastOp' = MkOp("close", 0, "OK", 0, {}, 0,
                          IF fb_close_last /\ "close" \in hooks
                            THEN "ok" ELSE "none")
  /\ UNCHANGED <<vtable_priv, paninfo_count, buf, fds, pollfd_priv,
                 vsyncoffset, wdog, hooks, dq, owed, fifo, panic,
                 wild, devnode, reg>>

\* ----------------------------------------------------------------- ioctl
\* The pan hook of the vtable, when the hardware provides it: its result
\* (which fb_ioctl drops) is "ok" or "err".
PanHook(name) == IF name \in hooks THEN {"ok", "err"} ELSE {"none"}

\* What the caller's pan-info structure holds after the hook, which gets
\* a pointer to it and may write to it: the same record or another one.
PanAfter(name, info) ==
  IF name \in hooks THEN {info, (info % NumRecords) + 1} ELSE {info}

\* A copy taken after the hook has run.
fb_pan_copy_late(info, after) == after

\* The pan commands' memcpy() into the local paninfo, before the hook.
fb_pan_copy(info, after) == info

\* The steps that are pan commands.
PanOps == {"pan_display", "pan_overlay"}

\* The overlays the hardware has, once the device is registered.
Overlays == 0 .. paninfo_count - 2

\* The pan commands: copy the caller's pan-info, call the hook if there is
\* one, then queue the copy with fb_add_paninfo().
Pan(f, info, overlay, hookname) ==
  /\ ~panic
  /\ UNCHANGED <<syncvars, hwopen>>
  /\ UNCHANGED iovars
  /\ ~wild
  /\ Opened(f)
  /\ \E hook \in PanHook(hookname), after \in PanAfter(hookname, info) :
       \E o \in fb_add_paninfo(fb_pan_copy(info, after), overlay) :
         /\ buf' = [buf EXCEPT ![overlay + 1] = o.buf]
         /\ fifo' = IF o.ret = "OK"
                      THEN [fifo EXCEPT ![overlay + 1] =
                              Append(@, fb_pan_copy(info, after))]
                      ELSE fifo
         /\ panic' = o.panic
         /\ lastOp' = MkOp(IF hookname = "pandisplay"
                             THEN "pan_display" ELSE "pan_overlay",
                           overlay + 1, o.ret, info, {}, 0, hook)
  /\ UNCHANGED <<vtable_priv, paninfo_count, fds, pollfd_priv, vsyncoffset,
                 wdog, crefs, f_priv, hooks, dq, owed, hwcalls, wild,
                 devnode, reg>>

\* FBIOPAN_DISPLAY
fb_ioctl_pan_display(f, info) == Pan(f, info, FB_NO_OVERLAY, "pandisplay")

\* FBIOPAN_OVERLAY
fb_ioctl_pan_overlay(f, info, overlay) ==
  /\ overlay \in Overlays
  /\ Pan(f, info, overlay, "panoverlay")

\* A selection stored whatever getoverlayinfo() returned.
fb_select_commits_always(r) == TRUE

\* FBIO_SELECT_OVERLAY: if (ret >= 0) priv->overlay = arg.
fb_select_commits(r) == r = "OK"

\* FBIO_SELECT_OVERLAY: the hardware's getoverlayinfo() accepts only an
\* overlay it has, and may fail for one it has.
fb_ioctl_select_overlay(f, arg) ==
  /\ ~panic
  /\ UNCHANGED <<syncvars, hwopen>>
  /\ UNCHANGED iovars
  /\ ~wild
  /\ Opened(f)
  /\ \E r \in IF arg \in Overlays THEN {"OK", "EINVAL"} ELSE {"EINVAL"} :
       /\ f_priv' = IF fb_select_commits(r)
                       THEN [f_priv EXCEPT ![f] = <<arg>>]
                       ELSE f_priv
       /\ lastOp' = MkOp("select", arg + 1, r, 0, {}, f, "none")
  /\ UNCHANGED <<vtable_priv, paninfo_count, buf, fds, pollfd_priv,
                 vsyncoffset, wdog, crefs, hooks, dq, owed, fifo,
                 hwcalls, panic,
                 wild, devnode, reg>>

\* The microsecond arguments tried: multiples of half a tick.
UsecArgs == {k * (USEC_PER_TICK \div 2) : k \in 0 .. 2 * MaxTicks}

\* FBIOSET_VSYNCOFFSET
fb_ioctl_set_vsyncoffset(f, usec) ==
  /\ ~panic
  /\ UNCHANGED <<syncvars, hwopen>>
  /\ UNCHANGED iovars
  /\ ~wild
  /\ Opened(f)
  /\ vsyncoffset' = USEC2TICK(usec)
  /\ lastOp' = MkOp("vsyncoffset", 0, "OK", 0, {}, 0, "none")
  /\ UNCHANGED <<vtable_priv, paninfo_count, buf, fds, pollfd_priv, wdog,
                 crefs, f_priv, hooks, dq, owed, fifo, hwcalls, panic,
                 wild, devnode, reg>>

\* ------------------------------------------------------------------ poll
\* fb_poll(filep, fds, setup = true), on a pollfd not set up at present.
fb_poll_setup(f, h) ==
  LET overlay == IF Opened(f) THEN f_priv[f][1] ELSE FB_NO_OVERLAY
      id      == overlay + 1
      i       == fb_get_free_pollfds(overlay)
  IN  /\ ~panic
      /\ UNCHANGED <<syncvars, hwopen>>
      /\ UNCHANGED iovars
      /\ ~wild
      /\ Opened(f)
      /\ pollfd_priv[h] = NULLP
      /\ IF i = NULL
           THEN /\ lastOp' = MkOp("poll_setup", id, "EBUSY", 0, {}, h, "none")
                /\ UNCHANGED <<fds, pollfd_priv>>
           ELSE /\ fds' = [fds EXCEPT ![id][i] = h]
                /\ pollfd_priv' = [pollfd_priv EXCEPT ![h] = <<id, i>>]
                /\ lastOp' = MkOp("poll_setup", id, "OK", 0,
                                  fb_poll_notify(id, h), h, "none")
      /\ UNCHANGED <<vtable_priv, paninfo_count, buf, vsyncoffset, wdog,
                     crefs, f_priv, hooks, dq, owed, fifo, hwcalls, panic,
                 wild, devnode, reg>>

\* fb_poll(filep, fds, setup = false); the info of the step is 1 when an
\* entry was cleared, and its slot is then the entry's.
fb_poll_teardown(f, h) ==
  /\ ~panic
  /\ UNCHANGED <<syncvars, hwopen>>
  /\ UNCHANGED iovars
  /\ ~wild
  /\ Opened(f)
  /\ IF pollfd_priv[h] # NULLP
       THEN /\ fds' = fb_poll_clear(h)
            /\ pollfd_priv' = [pollfd_priv EXCEPT ![h] = NULLP]
            /\ owed' = [owed EXCEPT ![pollfd_priv[h][1]] = @ \ {h}]
            /\ lastOp' = MkOp("poll_teardown", pollfd_priv[h][1], "OK", 1,
                              {}, h, "none")
       ELSE /\ lastOp' = MkOp("poll_teardown", 0, "OK", 0, {}, h, "none")
            /\ UNCHANGED <<fds, pollfd_priv, owed>>
  /\ UNCHANGED <<vtable_priv, paninfo_count, buf, vsyncoffset, wdog, crefs,
                 f_priv, hooks, dq, fifo, hwcalls, panic,
                 wild, devnode, reg>>

\* ----------------------------------------------- the hardware driver's calls
\* The surfaces the hardware driver names: its own, once it is registered.
HwOverlays == IF vtable_priv THEN (0 - 1) .. paninfo_count - 2
              ELSE (0 - 1) .. MaxOverlays - 1

Peek(overlay) ==
  /\ ~panic
  /\ UNCHANGED <<syncvars, hwopen>>
  /\ UNCHANGED iovars
  /\ ~wild
  /\ overlay \in HwOverlays
  /\ LET r == fb_peek_paninfo(overlay)
     IN  /\ buf' = [buf EXCEPT ![overlay + 1] = r.buf]
         /\ lastOp' = MkOp("peek", overlay + 1, r.ret, r.info, {}, 0, "none")
  /\ UNCHANGED <<vtable_priv, paninfo_count, fds, pollfd_priv, vsyncoffset,
                 wdog, crefs, f_priv, hooks, dq, owed, fifo, hwcalls,
                 panic,
                 wild, devnode, reg>>

Count(overlay) ==
  /\ ~panic
  /\ UNCHANGED <<syncvars, hwopen>>
  /\ UNCHANGED iovars
  /\ ~wild
  /\ overlay \in HwOverlays
  /\ lastOp' = MkOp("count", overlay + 1, fb_paninfo_count(overlay).ret,
                    fb_paninfo_count(overlay).count, {}, 0, "none")
  /\ UNCHANGED <<vtable_priv, paninfo_count, buf, fds, pollfd_priv,
                 vsyncoffset, wdog, crefs, f_priv, hooks, dq, owed,
                 fifo, hwcalls, panic,
                 wild, devnode, reg>>

\* fb_remove_paninfo, first critical section: circbuf_skip(). The info of
\* the step is the record that left the queue.
RemoveSkip(overlay) ==
  LET id == overlay + 1
      r  == fb_remove_paninfo(overlay)
  IN  /\ ~panic
      /\ UNCHANGED <<syncvars, hwopen>>
      /\ UNCHANGED iovars
      /\ ~wild
      /\ dq = <<>>
      /\ overlay \in HwOverlays
      /\ IF ~vtable_priv
           THEN /\ lastOp' = MkOp("remove", id, "EINVAL", 0, {}, 0, "none")
                /\ UNCHANGED <<buf, dq, owed, fifo>>
           ELSE /\ buf' = [buf EXCEPT ![id] = r.buf]
                /\ IF r.ret = 1
                     THEN /\ dq' = <<id>>
                          /\ owed' = [owed EXCEPT
                                        ![id] = @ \cup Waiters(id)]
                          /\ fifo' = [fifo EXCEPT ![id] = Tail(@)]
                          /\ lastOp' = MkOp("skip", id, "OK",
                                            circbuf_peek(buf[id]).info, {},
                                            0, "none")
                     ELSE /\ lastOp' = MkOp("remove", id, "ENOSPC", 0, {}, 0,
                                            "none")
                          /\ UNCHANGED <<dq, owed, fifo>>
      /\ UNCHANGED <<vtable_priv, paninfo_count, fds, pollfd_priv,
                     vsyncoffset, wdog, crefs, f_priv, hooks, hwcalls,
                     panic,
                 wild, devnode, reg>>

\* fb_remove_paninfo, after leave_critical_section(): fb_pollnotify() and
\* the return.
RemoveNotify ==
  /\ ~panic
  /\ UNCHANGED <<syncvars, hwopen>>
  /\ UNCHANGED iovars
  /\ ~wild
  /\ dq # <<>>
  /\ LET n == fb_pollnotify(dq[1])
     IN  /\ wdog' = n.wdog
         /\ owed' = [owed EXCEPT ![dq[1]] = @ \ n.sig]
         /\ lastOp' = MkOp("remove", dq[1], "OK", 0, n.sig, 0, "none")
  /\ dq' = <<>>
  /\ UNCHANGED <<vtable_priv, paninfo_count, buf, fds, pollfd_priv,
                 vsyncoffset, crefs, f_priv, hooks, fifo, hwcalls, panic,
                 wild, devnode, reg>>

\* ------------------------------------------------------------ the watchdog
\* A clock tick while the watchdog is counting down.
Tick ==
  /\ ~panic
  /\ UNCHANGED <<syncvars, hwopen>>
  /\ UNCHANGED iovars
  /\ ~wild
  /\ wdog.active
  /\ wdog.lag > 0
  /\ wdog' = [wdog EXCEPT !.lag = @ - 1]
  /\ lastOp' = MkOp("tick", 0, "OK", 0, {}, 0, "none")
  /\ UNCHANGED <<vtable_priv, paninfo_count, buf, fds, pollfd_priv,
                 vsyncoffset, crefs, f_priv, hooks, dq, owed, fifo,
                 hwcalls, panic,
                 wild, devnode, reg>>

\* The watchdog expires: fb_do_pollnotify(arg) in timer context.
WdogFire ==
  /\ ~panic
  /\ UNCHANGED <<syncvars, hwopen>>
  /\ UNCHANGED iovars
  /\ ~wild
  /\ wdog.active
  /\ wdog.lag = 0
  /\ wdog' = [wdog EXCEPT !.active = FALSE]
  /\ owed' = [owed EXCEPT ![wdog.arg] = @ \ fb_do_pollnotify(wdog.arg)]
  /\ lastOp' = MkOp("wdog", wdog.arg, "OK", 0, fb_do_pollnotify(wdog.arg),
                    0, "none")
  /\ UNCHANGED <<vtable_priv, paninfo_count, buf, fds, pollfd_priv,
                 vsyncoffset, crefs, f_priv, hooks, dq, fifo, hwcalls, panic,
                 wild, devnode, reg>>

\* ------------------------------------------------- forwarded commands
\* The optional operations of the vtable that the forwarded commands call.
OptionalOps ==
  {"getoverlayinfo", "getcmap", "putcmap", "getcursor", "getpower",
   "setpower", "getframerate"}

\* The operations every vtable has: registration calls both.
MandatoryOps == {"getvideoinfo", "getplaneinfo"}

\* The query commands, the ones among them that store the operation's
\* return value through the argument, and two mutating commands.
QueryCmds ==
  {"FBIOGET_VIDEOINFO", "FBIOGET_PLANEINFO", "FBIOGET_OVERLAYINFO",
   "FBIOGET_CMAP", "FBIOGET_CURSOR", "FBIOGET_POWER", "FBIOGET_FRAMERATE"}
ValueCmds == {"FBIOGET_POWER", "FBIOGET_FRAMERATE"}
SetCmds   == {"FBIOPUT_CMAP", "FBIOSET_POWER"}

\* The commands whose argument is a pointer the case dereferences or hands
\* to the hardware.
PointerCmds == QueryCmds \cup {"FBIOPUT_CMAP"}

\* The vtable operation a command's case calls.
IoctlOp(cmd) ==
  CASE cmd = "FBIOGET_VIDEOINFO"   -> "getvideoinfo"
    [] cmd = "FBIOGET_PLANEINFO"   -> "getplaneinfo"
    [] cmd = "FBIOGET_OVERLAYINFO" -> "getoverlayinfo"
    [] cmd = "FBIOGET_CMAP"        -> "getcmap"
    [] cmd = "FBIOPUT_CMAP"        -> "putcmap"
    [] cmd = "FBIOGET_CURSOR"      -> "getcursor"
    [] cmd = "FBIOGET_POWER"       -> "getpower"
    [] cmd = "FBIOSET_POWER"       -> "setpower"
    [] cmd = "FBIOGET_FRAMERATE"   -> "getframerate"

\* The vtable's pointer for the operation is not NULL.
Present(name) == name \in MandatoryOps \/ name \in hooks

\* What a hardware operation returns: OK or a negative error.
HwRets == {"OK"} \cup HwErrors

\* The condition of the DEBUGASSERT that opens a command's case.
fb_ioctl_asserted(cmd, arg) ==
  /\ cmd \in PointerCmds => arg # NULL
  /\ Present(IoctlOp(cmd))

\* fb_ioctl, the value a case leaves in ret after the operation returned
\* r: FBIOGET_POWER and FBIOGET_FRAMERATE store r through the argument and
\* set ret = OK, the other cases set ret = r.
fb_ioctl_ret(cmd, r) == IF cmd \in ValueCmds THEN "OK" ELSE r

\* fb_ioctl, the cases that forward to one vtable operation. The case
\* asserts its argument and the operation's pointer and then calls the
\* operation. With the assertion compiled out, a missing operation is a
\* call through a NULL pointer; a NULL argument is handed to the hardware,
\* after a read through it (FBIOGET_PLANEINFO) or before a write through
\* it (FBIOGET_POWER, FBIOGET_FRAMERATE).
fb_ioctl_forward(f, cmd, arg) ==
  /\ ~panic
  /\ UNCHANGED <<syncvars, hwopen>>
  /\ UNCHANGED iovars
  /\ ~wild
  /\ Opened(f)
  /\ \E p \in DEBUGASSERT(fb_ioctl_asserted(cmd, arg)), r \in HwRets :
       /\ panic' = p
       /\ wild' = /\ ~p
                  /\ \/ ~Present(IoctlOp(cmd))
                     \/ /\ cmd \in PointerCmds
                        /\ arg = NULL
                        /\ cmd \in ValueCmds \cup {"FBIOGET_PLANEINFO"}
       /\ lastOp' = MkOp(cmd, 0,
                         IF p THEN "PANIC" ELSE fb_ioctl_ret(cmd, r),
                         arg, {}, 0,
                         IF p \/ ~Present(IoctlOp(cmd)) THEN "none" ELSE r)
  /\ UNCHANGED <<vtable_priv, paninfo_count, buf, fds, pollfd_priv,
                 vsyncoffset, wdog, crefs, f_priv, hooks, dq, owed, fifo,
                 hwcalls, devnode, reg>>

\* ------------------------------------------- open and close, step by step
\* fb_open and fb_close as the tasks run them: task t uses file t, and any
\* number of tasks may be inside the calls at once. thr[t].arg is 1 while
\* the task has a struct fb_priv_s allocated that no file points to yet.

\* What every step of these calls leaves alone.
StepIdle ==
  UNCHANGED <<vtable_priv, paninfo_count, buf, fds, pollfd_priv, vsyncoffset,
              wdog, hooks, dq, owed, fifo, panic, wild, devnode, reg, cs,
              f_pos, fblen, fbmem, out>>

\* A call that goes on without taking fb->lock.
fb_lock_none(t) == 0

\* nxmutex_lock(&fb->lock) of fb_open and fb_close: the holder afterwards.
fb_lock(t) == t

\* A task enters fb_open (on a file that is not open) or fb_close (on one
\* that is).
fb_call(t, op) ==
  /\ ~panic
  /\ ~wild
  /\ devnode
  /\ thr[t].pc = "idle"
  /\ IF op = "open" THEN ~Opened(t) ELSE Opened(t)
  /\ thr' = [thr EXCEPT ![t] = [Idle EXCEPT !.pc = "lock", !.op = op]]
  /\ UNCHANGED <<lock, crefs, f_priv, hwcalls, hwopen, lastOp>>
  /\ StepIdle

\* nxmutex_lock() returns: the task has the lock.
fb_locked(t) ==
  /\ thr[t].pc = "lock"
  /\ lock = 0
  /\ lock' = fb_lock(t)
  /\ thr' = [thr EXCEPT ![t].pc = IF thr[t].op = "open" THEN "alloc"
                                                       ELSE "hook"]
  /\ UNCHANGED <<crefs, f_priv, hwcalls, hwopen, lastOp>>
  /\ StepIdle

\* fb_open: priv = kmm_zalloc(); NULL goes to err_out with -ENOMEM.
fb_open_alloc(t) ==
  /\ thr[t].pc = "alloc"
  /\ \/ thr' = [thr EXCEPT ![t].pc = "unlock", ![t].ret = "ENOMEM"]
     \/ thr' = [thr EXCEPT ![t].pc = "hook", ![t].arg = 1]
  /\ UNCHANGED <<lock, crefs, f_priv, hwcalls, hwopen, lastOp>>
  /\ StepIdle

\* An error path that forgets to free priv.
fb_open_err_fb_leak(c, r) ==
  [c EXCEPT !.pc = "unlock", !.ret = r, !.hook = "err"]

\* fb_open, err_fb: kmm_free(priv), then err_out with the hook's error.
fb_open_err_fb(c, r) ==
  [c EXCEPT !.pc = "unlock", !.ret = r, !.hook = "err", !.arg = 0]

\* fb_open: at crefs == 0 the hardware open hook, if there is one; its
\* failure goes to err_fb, which frees priv.
fb_open_hook(t) ==
  /\ thr[t].pc = "hook"
  /\ thr[t].op = "open"
  /\ IF fb_open_first /\ "open" \in hooks
       THEN /\ hwcalls.open < MaxHwCalls
            /\ \E r \in HwRets :
                 IF r = "OK"
                   THEN /\ hwcalls' = [hwcalls EXCEPT !.open = @ + 1]
                        /\ hwopen' = hwopen + 1
                        /\ thr' = [thr EXCEPT ![t].pc = "count",
                                              ![t].hook = "ok"]
                   ELSE /\ hwcalls' = [hwcalls EXCEPT !.open = @ + 1,
                                                      !.failed = @ + 1]
                        /\ hwopen' = hwopen
                        /\ thr' = [thr EXCEPT
                                     ![t] = fb_open_err_fb(thr[t], r)]
       ELSE /\ thr' = [thr EXCEPT ![t].pc = "count"]
            /\ UNCHANGED <<hwcalls, hwopen>>
  /\ UNCHANGED <<lock, crefs, f_priv, lastOp>>
  /\ StepIdle

\* fb_open: fb->crefs++; priv->overlay = FB_NO_OVERLAY; filep->f_priv = priv.
fb_open_count(t) ==
  /\ thr[t].pc = "count"
  /\ thr[t].op = "open"
  /\ crefs' = crefs + 1
  /\ f_priv' = [f_priv EXCEPT ![t] = <<FB_NO_OVERLAY>>]
  /\ thr' = [thr EXCEPT ![t].pc = "unlock", ![t].arg = 0]
  /\ UNCHANGED <<lock, hwcalls, hwopen, lastOp>>
  /\ StepIdle

\* fb_close: at crefs == 1 the hardware close hook, if there is one; its
\* failure skips the release.
fb_close_hook(t) ==
  /\ thr[t].pc = "hook"
  /\ thr[t].op = "close"
  /\ IF fb_close_last /\ "close" \in hooks
       THEN /\ hwcalls.close < MaxHwCalls
            /\ \E r \in HwRets :
                 IF r = "OK"
                   THEN /\ hwcalls' = [hwcalls EXCEPT !.close = @ + 1]
                        /\ hwopen' = hwopen - 1
                        /\ thr' = [thr EXCEPT ![t].pc = "count",
                                              ![t].hook = "ok"]
                   ELSE /\ hwcalls' = [hwcalls EXCEPT !.close = @ + 1,
                                                      !.failed = @ + 1]
                        /\ hwopen' = hwopen
                        /\ thr' = [thr EXCEPT ![t].pc = "unlock",
                                              ![t].ret = r,
                                              ![t].hook = "err"]
       ELSE /\ thr' = [thr EXCEPT ![t].pc = "count"]
            /\ UNCHANGED <<hwcalls, hwopen>>
  /\ UNCHANGED <<lock, crefs, f_priv, lastOp>>
  /\ StepIdle

\* fb_close: fb->crefs--; kmm_free(priv).
fb_close_count(t) ==
  /\ thr[t].pc = "count"
  /\ thr[t].op = "close"
  /\ crefs' = crefs - 1
  /\ f_priv' = [f_priv EXCEPT ![t] = NULLP]
  /\ thr' = [thr EXCEPT ![t].pc = "unlock"]
  /\ UNCHANGED <<lock, hwcalls, hwopen, lastOp>>
  /\ StepIdle

\* nxmutex_unlock(&fb->lock) and the return of fb_open or fb_close.
fb_unlock(t) ==
  /\ thr[t].pc = "unlock"
  /\ lock' = 0
  /\ thr' = [thr EXCEPT ![t] = Idle]
  /\ lastOp' = MkOp(thr[t].op, 0, thr[t].ret, 0, {}, t, thr[t].hook)
  /\ UNCHANGED <<crefs, f_priv, hwcalls, hwopen>>
  /\ StepIdle


\* ------------------------------- queue and waiter accesses, step by step
\* The driver's accesses to a surface's ring buffer and waiter array as the
\* contexts (threads, interrupt handlers, the watchdog) run them: context t
\* polls with handle t. A write takes two steps, between which the record
\* or the waiter entry is half written.

\* The calls: fb_add_paninfo, fb_peek_paninfo, fb_remove_paninfo's
\* circbuf_skip, fb_paninfo_count, fb_poll setup and teardown, and
\* fb_do_pollnotify.
CsOps == {"add", "peek", "skip", "count", "setup", "teardown", "notify"}

\* A record of which only a part has been copied into the ring buffer.
TORN == 0

\* What every step of these calls leaves alone.
CsIdle ==
  UNCHANGED <<vtable_priv, paninfo_count, vsyncoffset, wdog, crefs, f_priv,
              hooks, dq, owed, hwcalls, panic, wild, devnode, reg, lock,
              hwopen, f_pos, fblen, fbmem, out>>

\* A driver in which fb_paninfo_count reads the ring buffer unprotected.
fb_critical_nocount ==
  {"add", "peek", "skip", "setup", "teardown", "notify"}

\* The calls that make their accesses between enter_critical_section() and
\* leave_critical_section().
fb_critical ==
  {"add", "peek", "skip", "count", "setup", "teardown", "notify"}

\* A context calls one of them on slot `id` and passes
\* enter_critical_section(), which lets it in once nobody is inside.
cs_enter(t, op, id) ==
  /\ ~panic
  /\ ~wild
  /\ vtable_priv
  /\ id < paninfo_count
  /\ thr[t].pc = "idle"
  /\ op = "setup" => pollfd_priv[t] = NULLP
  /\ op = "teardown" => (pollfd_priv[t] # NULLP /\ pollfd_priv[t][1] = id)
  /\ IF op \in fb_critical
       THEN cs = 0 /\ cs' = t
       ELSE cs' = cs
  /\ thr' = [thr EXCEPT ![t] = [Idle EXCEPT !.pc = "first", !.op = op,
                                            !.slot = id]]
  /\ UNCHANGED <<buf, fds, pollfd_priv, fifo, lastOp>>
  /\ CsIdle

\* The call's access, or the first half of it; a read keeps what it saw
\* in the context's `arg` until the call returns.
cs_first(t) ==
  LET c  == thr[t]
      id == c.slot
      q  == buf[id].q
      i  == fb_get_free_pollfds(id - 1)
  IN  /\ c.pc = "first"
      /\ IF c.op = "add"
           THEN IF circbuf_is_full(buf[id])
                  THEN /\ thr' = [thr EXCEPT ![t].pc = "leave",
                                             ![t].ret = "ENOSPC"]
                       /\ UNCHANGED <<buf, fds, fifo>>
                  ELSE /\ buf' = [buf EXCEPT ![id].q = Append(@, TORN)]
                       /\ thr' = [thr EXCEPT ![t].pc = "second"]
                       /\ UNCHANGED <<fds, fifo>>
         ELSE IF c.op = "peek"
           THEN /\ thr' = [thr EXCEPT
                             ![t].pc = "leave",
                             ![t].ret = IF q = <<>> THEN "ENOSPC" ELSE "OK",
                             ![t].arg = IF q = <<>> THEN 0 ELSE Head(q)]
                /\ UNCHANGED <<buf, fds, fifo>>
         ELSE IF c.op = "skip"
           THEN /\ thr' = [thr EXCEPT
                             ![t].pc = "leave",
                             ![t].ret = IF q = <<>> THEN "ENOSPC" ELSE "OK"]
                /\ buf' = [buf EXCEPT ![id] = circbuf_skip(@).buf]
                /\ fifo' = IF q = <<>> THEN fifo
                           ELSE [fifo EXCEPT ![id] = Tail(@)]
                /\ UNCHANGED fds
         ELSE IF c.op = "count"
           THEN /\ thr' = [thr EXCEPT ![t].pc = "leave",
                                      ![t].arg = circbuf_used(buf[id])]
                /\ UNCHANGED <<buf, fds, fifo>>
         ELSE IF c.op = "setup"
           THEN IF i = NULL
                  THEN /\ thr' = [thr EXCEPT ![t].pc = "leave",
                                             ![t].ret = "EBUSY"]
                       /\ UNCHANGED <<buf, fds, fifo>>
                  ELSE /\ fds' = [fds EXCEPT ![id][i] = t]
                       /\ thr' = [thr EXCEPT ![t].pc = "second",
                                             ![t].arg = i]
                       /\ UNCHANGED <<buf, fifo>>
         ELSE IF c.op = "teardown"
           THEN /\ fds' = fb_poll_clear(t)
                /\ thr' = [thr EXCEPT ![t].pc = "second"]
                /\ UNCHANGED <<buf, fifo>>
         ELSE /\ thr' = [thr EXCEPT ![t].pc = "leave"]
              /\ UNCHANGED <<buf, fds, fifo>>
      /\ UNCHANGED <<cs, pollfd_priv, lastOp>>
      /\ CsIdle

\* The second half of a write: the record is complete, fds->priv is set or
\* cleared (and fb_poll setup tests whether the queue is full).
cs_second(t) ==
  LET c  == thr[t]
      id == c.slot
  IN  /\ c.pc = "second"
      /\ IF c.op = "add"
           THEN /\ buf' = [buf EXCEPT ![id].q[Len(buf[id].q)] = 1]
                /\ fifo' = [fifo EXCEPT ![id] = Append(@, 1)]
                /\ UNCHANGED pollfd_priv
         ELSE IF c.op = "setup"
           THEN /\ pollfd_priv' = [pollfd_priv EXCEPT ![t] = <<id, c.arg>>]
                /\ UNCHANGED <<buf, fifo>>
         ELSE /\ pollfd_priv' = [pollfd_priv EXCEPT ![t] = NULLP]
              /\ UNCHANGED <<buf, fifo>>
      /\ thr' = [thr EXCEPT ![t].pc = "leave"]
      /\ UNCHANGED <<cs, fds, lastOp>>
      /\ CsIdle

\* leave_critical_section() and the return of the call.
cs_leave(t) ==
  /\ thr[t].pc = "leave"
  /\ cs' = IF cs = t THEN 0 ELSE cs
  /\ thr' = [thr EXCEPT ![t] = Idle]
  /\ UNCHANGED <<buf, fds, pollfd_priv, fifo, lastOp>>
  /\ CsIdle


\* ------------------------------------------------ read, write, seek, mmap
\* The largest file position reached: seeks beyond it are not taken.
MaxPos == MaxFblen + 2

\* size_t has SizeBits bits.
SizeBits == 3
SIZE_MAX == 2 ^ SizeBits - 1

\* The surface a file's calls use: the slot of priv->overlay.
SlotOf(f) == f_priv[f][1] + 1

\* The panel-info query a call made, and what it returned.
PanelQuery(q) == <<[op |-> "panelinfo", ret |-> q]>>

\* A transfer that stops one byte short of the framebuffer's end.
fb_read_size_short(start, len, L) ==
  (IF start + len >= L THEN L - 1 ELSE start + len) - start

\* fb_read: size = end - start, with end = start + len clipped to fblen;
\* start, end and size are size_t, so the sum and the difference wrap.
fb_read_size(start, len, L) ==
  LET end == (start + len) % (SIZE_MAX + 1)
  IN  ((IF end >= L THEN L ELSE end) - start) % (SIZE_MAX + 1)

\* A transfer of all the caller's bytes.
fb_write_size_whole(start, len, L) == len

\* fb_write: size = end - start, with end = start + len clipped to fblen;
\* start, end and size are size_t, so the sum and the difference wrap.
fb_write_size(start, len, L) ==
  LET end == (start + len) % (SIZE_MAX + 1)
  IN  ((IF end >= L THEN L ELSE end) - start) % (SIZE_MAX + 1)

\* The smaller of two numbers.
Min(a, b) == IF a <= b THEN a ELSE b

\* Of the size bytes at fbmem + start, those that lie in the cells kept
\* here; a copy that runs past the framebuffer's length goes wild.
InCells(start, size) == Min(size, MaxFblen + 1 - start)

\* The caller's buffer for a write of len bytes: byte b, then alternating.
UserBuf(len, b) == [k \in 1 .. len |-> (b + k - 1) % 2]

\* fb_read(filep, buffer, len): the panel-info query returns q; at or past
\* the end of the framebuffer the call returns 0; otherwise it copies size
\* bytes from fbmem + start and advances f_pos. A copy of more bytes than
\* the framebuffer has left reads memory outside it (wild).
fb_read(f, len) ==
  /\ ~panic
  /\ UNCHANGED <<syncvars, hwopen>>
  /\ ~wild
  /\ Opened(f)
  /\ \E q \in HwRets :
       LET id    == SlotOf(f)
           L     == fblen[id]
           start == f_pos[f]
           size  == fb_read_size(start, len, L)
       IN  IF q # "OK"
             THEN /\ lastOp' = MkOp("read", id, q, 0, {}, f, "none")
                  /\ out' = [written |-> FALSE, data |-> <<>>,
                             calls |-> PanelQuery(q), len |-> len]
                  /\ UNCHANGED <<f_pos, wild>>
             ELSE IF start >= L
               THEN /\ lastOp' = MkOp("read", id, "OK", 0, {}, f, "none")
                    /\ out' = [written |-> FALSE, data |-> <<>>,
                               calls |-> PanelQuery(q), len |-> len]
                    /\ UNCHANGED <<f_pos, wild>>
               ELSE /\ lastOp' = MkOp("read", id, "OK", size, {}, f, "none")
                    /\ out' = [written |-> size > 0,
                               data    |-> [k \in 1 .. InCells(start, size)
                                             |-> fbmem[id][start + k - 1]],
                               calls   |-> PanelQuery(q),
                               len     |-> len]
                    /\ f_pos' = [f_pos EXCEPT ![f] = @ + size]
                    /\ wild' = (start + size > L)
  /\ UNCHANGED <<vtable_priv, paninfo_count, buf, fds, pollfd_priv,
                 vsyncoffset, wdog, crefs, f_priv, hooks, dq, owed, fifo,
                 hwcalls, panic, devnode, reg, fblen, fbmem>>

\* fb_write(filep, buffer, len) with the caller's buffer UserBuf(len, b):
\* at or past the end of the framebuffer the call returns -EFBIG;
\* otherwise it copies size bytes to fbmem + start and advances f_pos. A
\* copy of more bytes than the framebuffer has left overwrites memory
\* outside it (wild).
fb_write(f, len, b) ==
  /\ ~panic
  /\ UNCHANGED <<syncvars, hwopen>>
  /\ ~wild
  /\ Opened(f)
  /\ \E q \in HwRets :
       LET id    == SlotOf(f)
           L     == fblen[id]
           start == f_pos[f]
           size  == fb_write_size(start, len, L)
       IN  IF q # "OK" \/ start >= L
             THEN /\ lastOp' = MkOp("write", id,
                                    IF q # "OK" THEN q ELSE "EFBIG",
                                    0, {}, f, "none")
                  /\ out' = [written |-> FALSE, data |-> UserBuf(len, b),
                             calls |-> PanelQuery(q)]
                  /\ UNCHANGED <<f_pos, fbmem, wild>>
             ELSE /\ lastOp' = MkOp("write", id, "OK", size, {}, f, "none")
                  /\ out' = [written |-> FALSE, data |-> UserBuf(len, b),
                             calls |-> PanelQuery(q)]
                  /\ fbmem' = [fbmem EXCEPT ![id] =
                                 [c \in Cells |->
                                    IF c \in start .. start + size - 1
                                      THEN UserBuf(len, b)[c - start + 1]
                                      ELSE @[c]]]
                  /\ f_pos' = [f_pos EXCEPT ![f] = @ + size]
                  /\ wild' = (start + size > L)
  /\ UNCHANGED <<vtable_priv, paninfo_count, buf, fds, pollfd_priv,
                 vsyncoffset, wdog, crefs, f_priv, hooks, dq, owed, fifo,
                 hwcalls, panic, devnode, reg, fblen>>

\* The whence values: the three of lseek() and one that is none of them.
Whences == {"SEEK_SET", "SEEK_CUR", "SEEK_END", "SEEK_DATA"}

\* A SEEK_END that counts from the current position.
fb_seek_newpos_cur(pos, offset, whence, L) ==
  CASE whence = "SEEK_SET" -> offset
    [] OTHER               -> pos + offset

\* fb_seek: newpos for the three valid whence values.
fb_seek_newpos(pos, offset, whence, L) ==
  CASE whence = "SEEK_CUR" -> pos + offset
    [] whence = "SEEK_SET" -> offset
    [] whence = "SEEK_END" -> L + offset

\* fb_seek(filep, offset, whence): SEEK_END asks for the panel info first
\* (the query returns q); an invalid whence and a negative new position
\* return -EINVAL; otherwise f_pos becomes the new position, which is
\* returned.
fb_seek(f, offset, whence) ==
  /\ ~panic
  /\ UNCHANGED <<syncvars, hwopen>>
  /\ ~wild
  /\ Opened(f)
  /\ \E q \in IF whence = "SEEK_END" THEN HwRets ELSE {"OK"} :
       LET id     == SlotOf(f)
           called == IF whence = "SEEK_END" THEN PanelQuery(q) ELSE <<>>
           req    == [written |-> FALSE, data |-> <<>>, calls |-> called,
                      offset |-> offset, whence |-> whence]
       IN  /\ out' = req
           /\ IF q # "OK" \/ whence \notin {"SEEK_SET", "SEEK_CUR", "SEEK_END"}
                THEN /\ lastOp' = MkOp("seek", id,
                                       IF q # "OK" THEN q ELSE "EINVAL",
                                       0, {}, f, "none")
                     /\ UNCHANGED f_pos
                ELSE LET newpos ==
                           fb_seek_newpos(f_pos[f], offset, whence, fblen[id])
                     IN  /\ newpos <= MaxPos
                         /\ IF newpos >= 0
                              THEN /\ f_pos' = [f_pos EXCEPT ![f] = newpos]
                                   /\ lastOp' = MkOp("seek", id, "OK",
                                                     newpos, {}, f, "none")
                              ELSE /\ UNCHANGED f_pos
                                   /\ lastOp' = MkOp("seek", id, "EINVAL",
                                                     0, {}, f, "none")
  /\ UNCHANGED <<vtable_priv, paninfo_count, buf, fds, pollfd_priv,
                 vsyncoffset, wdog, crefs, f_priv, hooks, dq, owed, fifo,
                 hwcalls, panic, wild, devnode, reg, fblen, fbmem>>

\* A range check that lets an empty range through.
fb_mmap_valid_empty(offset, length, L) ==
  offset >= 0 /\ offset + length <= L

\* fb_mmap: the condition on map->offset and map->length; the sum is
\* computed in the width of size_t.
fb_mmap_valid(offset, length, L) ==
  /\ offset >= 0
  /\ offset < L
  /\ length # 0
  /\ (offset + length) % (SIZE_MAX + 1) <= L

\* fb_mmap(filep, map): the panel-info query returns q; a valid range sets
\* map->vaddr = fbmem + offset (slot and offset here) and returns OK, any
\* other returns -EINVAL.
fb_mmap(f, offset, length) ==
  /\ ~panic
  /\ UNCHANGED <<syncvars, hwopen>>
  /\ ~wild
  /\ Opened(f)
  /\ \E q \in HwRets :
       LET id == SlotOf(f)
           ok == q = "OK" /\ fb_mmap_valid(offset, length, fblen[id])
       IN  /\ lastOp' = MkOp("mmap", id,
                             IF q # "OK" THEN q
                             ELSE IF ok THEN "OK" ELSE "EINVAL",
                             length, {}, f, "none")
           /\ out' = [written |-> ok,
                      data    |-> <<>>,
                      calls   |-> PanelQuery(q),
                      offset  |-> offset,
                      vaddr   |-> IF ok THEN <<id, offset>> ELSE <<>>]
  /\ UNCHANGED <<vtable_priv, paninfo_count, buf, fds, pollfd_priv,
                 vsyncoffset, wdog, crefs, f_priv, hooks, dq, owed, fifo,
                 hwcalls, panic, wild, devnode, reg, f_pos, fblen, fbmem>>

\* ------------------------------------------------ screen-info queries
\* The pixel formats the switch of FBIOGET_VSCREENINFO names, and three it
\* does not name.
NamedFormats ==
  {"FB_FMT_Y1", "FB_FMT_Y8", "FB_FMT_RGB16_555", "FB_FMT_RGB16_565",
   "FB_FMT_RGB24", "FB_FMT_RGB32", "FB_FMT_RGBA32"}
Formats == NamedFormats \cup {"FB_FMT_Y4", "FB_FMT_RGB8_332", "FB_FMT_YUY2"}

\* The bitfields of struct fb_var_screeninfo: offset and length of the
\* red, green, blue and transp channels.
Channels(ro, rl, go, gl, bo, bl, to, tl) ==
  [red    |-> [offset |-> ro, length |-> rl],
   green  |-> [offset |-> go, length |-> gl],
   blue   |-> [offset |-> bo, length |-> bl],
   transp |-> [offset |-> to, length |-> tl]]

\* A switch whose FB_FMT_RGB16_565 case has the 555 lengths.
fb_var_channels_555(fmt) ==
  CASE fmt = "FB_FMT_Y1"        -> Channels(0, 1, 0, 1, 0, 1, 0, 0)
    [] fmt = "FB_FMT_Y8"        -> Channels(0, 8, 0, 8, 0, 8, 0, 0)
    [] fmt = "FB_FMT_RGB16_555" -> Channels(10, 5, 5, 5, 0, 5, 0, 0)
    [] fmt = "FB_FMT_RGB16_565" -> Channels(11, 5, 5, 5, 0, 5, 0, 0)
    [] fmt \in {"FB_FMT_RGB24", "FB_FMT_RGB32"}
                                -> Channels(16, 8, 8, 8, 0, 8, 0, 0)
    [] fmt = "FB_FMT_RGBA32"    -> Channels(16, 8, 8, 8, 0, 8, 24, 8)
    [] OTHER                    -> Channels(0, 0, 0, 0, 0, 0, 0, 0)

\* FBIOGET_VSCREENINFO: the channel fields after memset(varinfo, 0, ...)
\* and switch (vinfo.fmt), which has no default case.
fb_var_channels(fmt) ==
  CASE fmt = "FB_FMT_Y1"        -> Channels(0, 1, 0, 1, 0, 1, 0, 0)
    [] fmt = "FB_FMT_Y8"        -> Channels(0, 8, 0, 8, 0, 8, 0, 0)
    [] fmt = "FB_FMT_RGB16_555" -> Channels(10, 5, 5, 5, 0, 5, 0, 0)
    [] fmt = "FB_FMT_RGB16_565" -> Channels(11, 5, 5, 6, 0, 5, 0, 0)
    [] fmt \in {"FB_FMT_RGB24", "FB_FMT_RGB32"}
                                -> Channels(16, 8, 8, 8, 0, 8, 0, 0)
    [] fmt = "FB_FMT_RGBA32"    -> Channels(16, 8, 8, 8, 0, 8, 24, 8)
    [] OTHER                    -> Channels(0, 0, 0, 0, 0, 0, 0, 0)

\* The aggregate commands.
ScreenCmds == {"FBIOGET_VSCREENINFO", "FBIOGET_FSCREENINFO"}

\* Sub-queries that go on to getplaneinfo() after getvideoinfo() failed.
fb_screeninfo_queries_both(v, p) ==
  [calls |-> <<[op |-> "getvideoinfo", ret |-> v],
               [op |-> "getplaneinfo", ret |-> p]>>,
   ret   |-> p]

\* FBIOGET_VSCREENINFO and FBIOGET_FSCREENINFO, the sub-queries:
\* getvideoinfo() returning v, and then, unless v is an error,
\* fb_get_planeinfo() returning p; ret is the first error, or OK.
fb_screeninfo_queries(v, p) ==
  IF v # "OK"
    THEN [calls |-> <<[op |-> "getvideoinfo", ret |-> v]>>, ret |-> v]
    ELSE [calls |-> <<[op |-> "getvideoinfo", ret |-> v],
                      [op |-> "getplaneinfo", ret |-> p]>>,
          ret   |-> p]

\* FBIOGET_VSCREENINFO and FBIOGET_FSCREENINFO on hardware whose
\* getvideoinfo() reports the pixel format fmt. The caller's structure is
\* cleared and filled only after both sub-queries succeeded; of its
\* contents the channel fields of fb_var_screeninfo are modelled. A NULL
\* argument trips the assertion or, compiled out, is cleared through.
fb_ioctl_screeninfo(f, cmd, arg, fmt) ==
  /\ ~panic
  /\ UNCHANGED <<syncvars, hwopen>>
  /\ ~wild
  /\ Opened(f)
  /\ \E pn \in DEBUGASSERT(arg # NULL), v \in HwRets, p \in HwRets :
       LET q == fb_screeninfo_queries(v, p)
           w == ~pn /\ q.ret = "OK"
       IN  /\ panic' = pn
           /\ wild' = (w /\ arg = NULL)
           /\ out' = IF pn THEN NoOut
                     ELSE [written |-> w /\ arg # NULL,
                           data    |-> IF w /\ arg # NULL
                                            /\ cmd = "FBIOGET_VSCREENINFO"
                                         THEN fb_var_channels(fmt)
                                         ELSE <<>>,
                           calls   |-> q.calls,
                           fmt     |-> IF v = "OK" THEN fmt ELSE "none"]
           /\ lastOp' = MkOp(cmd, 0, IF pn THEN "PANIC" ELSE q.ret, arg, {},
                             0, "none")
  /\ UNCHANGED <<vtable_priv, paninfo_count, buf, fds, pollfd_priv,
                 vsyncoffset, wdog, crefs, f_priv, hooks, dq, owed, fifo,
                 hwcalls, devnode, reg, f_pos, fblen, fbmem>>

\* ------------------------------------------- surfaces the device has not
\* fb_get_panbuf: the condition of its DEBUGASSERT, id >= 0 && id <
\* fb->paninfo_count. The function returns &fb->paninfo[id].buf whether
\* or not it holds, never NULL.
fb_get_panbuf_valid(overlay) ==
  overlay + 1 >= 0 /\ overlay + 1 < paninfo_count

\* The overlay numbers just below and just above the device's range.
StrayOverlays == {FB_NO_OVERLAY - 1, paninfo_count - 1}

\* The queue calls, by the name of their steps.
QueueCalls == {"pan_overlay", "peek", "remove", "count"}

\* What a circbuf call on memory outside paninfo[] may come back with.
StrayRets == {"OK", "ENOSPC"}

\* A queue call (FBIOPAN_OVERLAY, fb_peek_paninfo, fb_remove_paninfo,
\* fb_paninfo_count) that names a surface the registered device has not:
\* the assertion of fb_get_panbuf() fires, or, compiled out, the call
\* goes on with the memory at &fb->paninfo[id].
StrayQueueCall(call, overlay) ==
  /\ ~panic
  /\ UNCHANGED <<syncvars, hwopen>>
  /\ UNCHANGED iovars
  /\ ~wild
  /\ vtable_priv
  /\ call = "pan_overlay" => \E f \in User : Opened(f)
  /\ ~fb_get_panbuf_valid(overlay)
  /\ \E p \in DEBUGASSERT(fb_get_panbuf_valid(overlay)),
        r \in IF call = "count" THEN {"OK"} ELSE StrayRets :
       /\ panic' = p
       /\ wild' = ~p
       /\ lastOp' = MkOp(call, overlay + 1, IF p THEN "PANIC" ELSE r, 0, {},
                         0, "none")
  /\ UNCHANGED <<vtable_priv, paninfo_count, buf, fds, pollfd_priv,
                 vsyncoffset, wdog, crefs, f_priv, hooks, dq, owed, fifo,
                 hwcalls, devnode, reg>>

\* ------------------------------------------------------- specifications
\* The surfaces the runs exercise: the primary one and the last overlay,
\* the two ends of the paninfo[] array.
LastOverlay == MaxOverlays - 1
Probed      == {FB_NO_OVERLAY, LastOverlay}

\* Hardware whose overlays all have the same geometry.
OverlayHw ==
  {[id \in Slots |-> IF id = 0 THEN p ELSE o] : p, o \in HwInfos}

\* Hardware whose surfaces all have the same geometry.
UniformHw == {[id \in Slots |-> hw] : hw \in HwInfos}

\* Hardware that reports no virtual resolution: one buffer per surface.
SingleHw ==
  {[id \in Slots |-> hw] : hw \in {h \in HwInfos : h.yres_virtual = 0}}

\* Hardware without optional hooks: they play no part in polls.
InitPoll == Init /\ hooks = {}

\* The pan-info queues: registration with any number of overlays, opens,
\* the pan commands (every payload on the primary surface, one payload on
\* the last overlay: the driver copies payloads and never reads them), the
\* hardware driver's queue calls and one poller.
\* The payloads the pans of the primary surface carry: two different ones.
PanRecords == {1, NumRecords}

Next ==
  \/ \E noverlays \in 0 .. MaxOverlays, hw \in OverlayHw :
       fb_register_device(noverlays, hw)
  \/ fb_register_return
  \/ \E f \in User : fb_open(f)
  \/ \E f \in User, info \in PanRecords : fb_ioctl_pan_display(f, info)
  \/ \E f \in User : fb_ioctl_pan_overlay(f, 1, LastOverlay)
  \/ \E f \in User : fb_poll_setup(f, 1)
  \/ \E f \in User : fb_poll_teardown(f, 1)
  \/ \E overlay \in Probed : Peek(overlay)
  \/ \E overlay \in Probed : Count(overlay)
  \/ \E overlay \in Probed : RemoveSkip(overlay)
  \/ RemoveNotify

Spec == Init /\ [][Next]_vars

\* Opens and closes of several files on the registered device.
NextOpen ==
  \/ \E noverlays \in 0 .. MaxOverlays, hw \in UniformHw :
       fb_register_device(noverlays, hw)
  \/ fb_register_return
  \/ \E f \in Files : fb_open(f)
  \/ \E f \in Files : fb_close(f)

SpecOpen == Init /\ [][NextOpen]_vars

\* Overlay selection by several open files of a device with overlays.
NextSelect ==
  \/ \E hw \in UniformHw : fb_register_device(MaxOverlays, hw)
  \/ fb_register_return
  \/ \E f \in Files : fb_open(f)
  \/ \E f \in Files : fb_close(f)
  \/ \E f \in Files, arg \in {0, LastOverlay, MaxOverlays} :
       fb_ioctl_select_overlay(f, arg)

SpecSelect == InitPoll /\ [][NextSelect]_vars

\* Polls and notifications: one payload value (the waiters see only how
\* full a queue is), the handles 1..NumWaiters, a device with overlays
\* and single-buffered surfaces.
NextPoll ==
  \/ \E hw \in SingleHw : fb_register_device(MaxOverlays, hw)
  \/ fb_register_return
  \/ \E f \in User : fb_open(f)
  \/ \E f \in User : fb_ioctl_pan_display(f, 1)
  \/ \E f \in User : fb_ioctl_pan_overlay(f, 1, LastOverlay)
  \/ \E f \in User, arg \in {LastOverlay, MaxOverlays} :
       fb_ioctl_select_overlay(f, arg)
  \/ \E f \in User, usec \in UsecArgs : fb_ioctl_set_vsyncoffset(f, usec)
  \/ \E f \in User, h \in 1 .. NumWaiters : fb_poll_setup(f, h)
  \/ \E f \in User, h \in 1 .. NumWaiters : fb_poll_teardown(f, h)
  \/ \E overlay \in Probed : RemoveSkip(overlay)
  \/ RemoveNotify
  \/ Tick
  \/ WdogFire

SpecPoll == InitPoll /\ [][NextPoll]_vars

\* Polls, dequeues and the watchdog with pans of the primary surface only:
\* waiters come and go on every surface while notifications are due.
NextTear ==
  \/ \E hw \in SingleHw : fb_register_device(MaxOverlays, hw)
  \/ fb_register_return
  \/ \E f \in User : fb_open(f)
  \/ \E f \in User : fb_ioctl_pan_display(f, 1)
  \/ \E f \in User, arg \in {LastOverlay, MaxOverlays} :
       fb_ioctl_select_overlay(f, arg)
  \/ \E f \in User, usec \in UsecArgs : fb_ioctl_set_vsyncoffset(f, usec)
  \/ \E f \in User, h \in 1 .. NumWaiters : fb_poll_setup(f, h)
  \/ \E f \in User, h \in 1 .. NumWaiters : fb_poll_teardown(f, h)
  \/ \E overlay \in Probed : RemoveSkip(overlay)
  \/ RemoveNotify
  \/ Tick
  \/ WdogFire

SpecTear == InitPoll /\ [][NextTear]_vars

\* Poll setup and teardown with more handles than a surface has entries,
\* while pans fill the queues and dequeues (vsync offset 0) drain them.
NextSetup ==
  \/ \E hw \in UniformHw : fb_register_device(MaxOverlays, hw)
  \/ fb_register_return
  \/ \E f \in User : fb_open(f)
  \/ \E f \in User : fb_ioctl_pan_display(f, 1)
  \/ \E f \in User : fb_ioctl_pan_overlay(f, 1, LastOverlay)
  \/ \E f \in User, arg \in {LastOverlay, MaxOverlays} :
       fb_ioctl_select_overlay(f, arg)
  \/ \E f \in User, h \in Handles : fb_poll_setup(f, h)
  \/ \E f \in User, h \in Handles : fb_poll_teardown(f, h)
  \/ \E overlay \in Probed : RemoveSkip(overlay)
  \/ RemoveNotify

SpecSetup == InitPoll /\ [][NextSetup]_vars

\* The queue calls' error paths: calls before and during registration, on
\* empty queues and on surfaces the device has not, with a waiter and a
\* vsync offset in place.
NextErr ==
  \/ \E noverlays \in 0 .. MaxOverlays, hw \in SingleHw :
       fb_register_device(noverlays, hw)
  \/ fb_register_return
  \/ \E f \in User : fb_open(f)
  \/ \E f \in User, usec \in UsecArgs : fb_ioctl_set_vsyncoffset(f, usec)
  \/ \E f \in User : fb_ioctl_pan_display(f, 1)
  \/ \E f \in User : fb_ioctl_pan_overlay(f, 1, LastOverlay)
  \/ \E f \in User : fb_poll_setup(f, 1)
  \/ \E f \in User : fb_poll_teardown(f, 1)
  \/ \E overlay \in Probed : Peek(overlay)
  \/ \E overlay \in Probed : Count(overlay)
  \/ \E overlay \in Probed : RemoveSkip(overlay)
  \/ RemoveNotify
  \/ Tick
  \/ WdogFire
  \/ \E call \in QueueCalls, overlay \in StrayOverlays :
       StrayQueueCall(call, overlay)

SpecErr == InitPoll /\ [][NextErr]_vars

\* The vtables tried with the forwarded commands: the mandatory operations
\* only, some optional ones, all of them.
IoctlConfigs ==
  {{}, {"pandisplay", "getcmap", "getpower"}, AllHooks \cup OptionalOps}

InitIoctl == InitState /\ hooks \in IoctlConfigs /\ IoIdle

\* The pointer arguments tried: NULL and a valid one.
IoctlArgs == {NULL, 1}

\* The commands of fb_ioctl that call into the hardware, on a device
\* without overlays.
NextIoctl ==
  \/ \E hw \in SingleHw : fb_register_device(0, hw)
  \/ fb_register_return
  \/ \E f \in User : fb_open(f)
  \/ \E f \in User : fb_close(f)
  \/ \E f \in User, cmd \in QueryCmds \cup SetCmds, arg \in IoctlArgs :
       fb_ioctl_forward(f, cmd, arg)
  \/ \E f \in User : fb_ioctl_pan_display(f, 1)

SpecIoctl == InitIoctl /\ [][NextIoctl]_vars

\* The aggregate screen-info queries on every pixel format.
NextScreen ==
  \/ \E hw \in SingleHw : fb_register_device(0, hw)
  \/ fb_register_return
  \/ \E f \in User : fb_open(f)
  \/ \E f \in User, cmd \in ScreenCmds, arg \in IoctlArgs, fmt \in Formats :
       fb_ioctl_screeninfo(f, cmd, arg, fmt)

SpecScreen == InitPoll /\ [][NextScreen]_vars

\* Tasks open and close their files concurrently, one step at a time.
NextLock ==
  \/ \E hw \in SingleHw : fb_register_device(0, hw)
  \/ fb_register_return
  \/ \E t \in Files, op \in {"open", "close"} : fb_call(t, op)
  \/ \E t \in Files : fb_locked(t)
  \/ \E t \in Files : fb_open_alloc(t)
  \/ \E t \in Files : fb_open_hook(t)
  \/ \E t \in Files : fb_open_count(t)
  \/ \E t \in Files : fb_close_hook(t)
  \/ \E t \in Files : fb_close_count(t)
  \/ \E t \in Files : fb_unlock(t)

SpecLock == Init /\ [][NextLock]_vars

\* Contexts access the queues and waiter arrays of a registered device
\* concurrently, one step at a time.
NextCs ==
  \/ \E hw \in SingleHw : fb_register_device(MaxOverlays, hw)
  \/ fb_register_return
  \/ \E t \in Files, op \in CsOps, id \in Slots : cs_enter(t, op, id)
  \/ \E t \in Files : cs_first(t)
  \/ \E t \in Files : cs_second(t)
  \/ \E t \in Files : cs_leave(t)

SpecCs == InitPoll /\ [][NextCs]_vars

\* Waiters come and go while the file changes its selection: no pans and
\* no dequeues.
NextWait ==
  \/ \E hw \in SingleHw : fb_register_device(MaxOverlays, hw)
  \/ fb_register_return
  \/ \E f \in User : fb_open(f)
  \/ \E f \in User, arg \in {LastOverlay, MaxOverlays} :
       fb_ioctl_select_overlay(f, arg)
  \/ \E f \in User, h \in Handles : fb_poll_setup(f, h)
  \/ \E f \in User, h \in Handles : fb_poll_teardown(f, h)

SpecWait == InitPoll /\ [][NextWait]_vars

\* Framebuffers of every length up to MaxFblen for the primary surface,
\* the overlays having what is left of MaxFblen, holding alternating bytes.
InitIo ==
  /\ InitState
  /\ hooks = {}
  /\ f_pos = [f \in Files |-> 0]
  /\ \E a \in 0 .. MaxFblen :
       fblen = [id \in Slots |-> IF id = 0 THEN a ELSE MaxFblen - a]
  /\ fbmem = [id \in Slots |-> [c \in Cells |-> (c + id) % 2]]
  /\ out = NoOut

\* The byte counts and the offsets tried: up to one more than the longest
\* framebuffer, and one below zero.
Lens    == 0 .. MaxFblen + 1
Offsets == (0 - 1) .. MaxFblen + 1

\* Reads of the primary surface and of the last overlay at every position.
NextRead ==
  \/ \E hw \in SingleHw : fb_register_device(MaxOverlays, hw)
  \/ fb_register_return
  \/ \E f \in User : fb_open(f)
  \/ \E f \in User : fb_ioctl_select_overlay(f, LastOverlay)
  \/ \E f \in User, offset \in Lens : fb_seek(f, offset, "SEEK_SET")
  \/ \E f \in User, len \in Lens : fb_read(f, len)

SpecRead == InitIo /\ [][NextRead]_vars

\* Writes to the primary surface at every position.
NextWrite ==
  \/ \E hw \in SingleHw : fb_register_device(MaxOverlays, hw)
  \/ fb_register_return
  \/ \E f \in User : fb_open(f)
  \/ \E f \in User, offset \in Lens : fb_seek(f, offset, "SEEK_SET")
  \/ \E f \in User, len \in Lens, b \in Bytes : fb_write(f, len, b)

SpecWrite == InitIo /\ [][NextWrite]_vars

\* Seeks with every whence on the primary surface and the last overlay.
NextSeek ==
  \/ \E hw \in SingleHw : fb_register_device(MaxOverlays, hw)
  \/ fb_register_return
  \/ \E f \in User : fb_open(f)
  \/ \E f \in User : fb_ioctl_select_overlay(f, LastOverlay)
  \/ \E f \in User, offset \in Offsets, whence \in Whences :
       fb_seek(f, offset, whence)

SpecSeek == InitIo /\ [][NextSeek]_vars

\* Mappings of the primary surface and of the last overlay.
NextMmap ==
  \/ \E hw \in SingleHw : fb_register_device(MaxOverlays, hw)
  \/ fb_register_return
  \/ \E f \in User : fb_open(f)
  \/ \E f \in User : fb_ioctl_select_overlay(f, LastOverlay)
  \/ \E f \in User, offset \in Offsets, length \in Lens :
       fb_mmap(f, offset, length)

SpecMmap == InitIo /\ [][NextMmap]_vars

\* The byte counts near the top of size_t.
WideLens == {1, SIZE_MAX - 1, SIZE_MAX}

\* Reads, writes and mappings of the primary surface and of the last
\* overlay with byte counts up to SIZE_MAX.
NextWide ==
  \/ \E hw \in SingleHw : fb_register_device(MaxOverlays, hw)
  \/ fb_register_return
  \/ \E f \in User : fb_open(f)
  \/ \E f \in User : fb_ioctl_select_overlay(f, LastOverlay)
  \/ \E f \in User, offset \in Lens : fb_seek(f, offset, "SEEK_SET")
  \/ \E f \in User, len \in WideLens : fb_read(f, len)
  \/ \E f \in User, len \in WideLens, b \in Bytes : fb_write(f, len, b)
  \/ \E f \in User, offset \in Lens, length \in WideLens :
       fb_mmap(f, offset, length)

SpecWide == InitIo /\ [][NextWide]_vars

\* ================================================================ claims
Used(id) == circbuf_used(buf[id])
Full(id) == circbuf_is_full(buf[id])

\* C1: on a registered surface whose reported buffer count is B, a pan
\* (enqueue) succeeds if and only if the surface holds fewer than B records
\* at that moment; on a surface holding B records it fails with QueueFull
\* (-ENOSPC) and leaves the queue as it was.
C1_EnqueueIffRoom ==
  [][(lastOp'.op \in PanOps /\ vtable_priv) =>
       LET id == lastOp'.slot
       IN  IF Used(id) < buf[id].size
             THEN /\ lastOp'.ret = "OK"
                  /\ buf'[id].q = Append(buf[id].q, lastOp'.info)
             ELSE /\ lastOp'.ret = "ENOSPC"
                  /\ buf' = buf]_vars

\* The same statement for the pans in which no assertion fires.
C1_WithoutAssertions ==
  [][(lastOp'.op \in PanOps /\ ~panic' /\ vtable_priv) =>
       LET id == lastOp'.slot
       IN  IF Used(id) < buf[id].size
             THEN /\ lastOp'.ret = "OK"
                  /\ buf'[id].q = Append(buf[id].q, lastOp'.info)
             ELSE /\ lastOp'.ret = "ENOSPC"
                  /\ buf' = buf]_vars

\* C2: after a successful dequeue on a surface, every waiter registered on
\* it and not torn down is eventually signalled, whatever other dequeues
\* come before the deferred callback. Stated on finite runs: while a
\* waiter of a surface is owed the signal of a dequeue, a notification for
\* that surface is in flight (the dequeue is about to notify, or the
\* watchdog is armed for that surface).
C2_NotificationInFlight ==
  \A id \in Slots :
    owed[id] # {} => (dq = <<id>> \/ (wdog.active /\ wdog.arg = id))

\* C3: each surface's queue is FIFO. The queue always holds exactly the
\* payloads queued with success and not yet dequeued, oldest first; a peek
\* returns the oldest of them, and a dequeue removes that one.
C3_Fifo ==
  /\ \A id \in Slots : buf[id].q = fifo[id]
  /\ (lastOp.op = "peek" /\ lastOp.ret # "EINVAL") =>
       IF fifo[lastOp.slot] = <<>>
         THEN lastOp.ret = "ENOSPC"
         ELSE lastOp.ret = "OK" /\ lastOp.info = Head(fifo[lastOp.slot])

\* A peek returned the older of two different queued payloads.
C3_Witness ==
  /\ lastOp.op = "peek"
  /\ lastOp.ret = "OK"
  /\ Len(fifo[lastOp.slot]) = 2
  /\ fifo[lastOp.slot][1] # fifo[lastOp.slot][2]
  /\ lastOp.info = fifo[lastOp.slot][1]

\* The change of the number of queued records of slot id in a step: one
\* more for a successful pan on it, one less for a successful dequeue.
C4_Delta(id) ==
  (IF lastOp'.op \in PanOps /\ lastOp'.slot = id /\ lastOp'.ret = "OK"
     THEN 1 ELSE 0)
  - (IF lastOp'.op = "skip" /\ lastOp'.slot = id THEN 1 ELSE 0)

\* C4: once the device is registered, every surface holds a whole number
\* of records between 0 and B, its capacity is never resized, the count
\* changes by the successful enqueues minus the successful dequeues, and
\* fb_paninfo_count() returns that number.
C4_PendingCount ==
  /\ [](\A id \in Slots :
          Registered(id) =>
            /\ 0 <= Used(id) /\ Used(id) <= buf[id].size
            /\ Used(id) = Len(fifo[id]))
  /\ []((lastOp.op = "count" /\ lastOp.ret = "OK") =>
          /\ lastOp.info = Len(fifo[lastOp.slot])
          /\ lastOp.info \in 0 .. buf[lastOp.slot].size)
  /\ [][vtable_priv =>
          \A id \in Slots :
            /\ buf'[id].size = buf[id].size
            /\ Registered(id) => Used(id)' - Used(id) = C4_Delta(id)]_vars

\* fb_paninfo_count() returned B = 2 on a surface filled to capacity.
C4_Witness ==
  /\ lastOp.op = "count"
  /\ lastOp.ret = "OK"
  /\ lastOp.info = 2
  /\ buf[lastOp.slot].size = 2

\* C5: with the hooks present and succeeding, the hardware open hook is
\* invoked exactly on the opens that take the reference count from 0 to 1
\* and the close hook exactly on the closes that take it from 1 to 0, so
\* the open hook has run once more than the close hook while the device is
\* open and as often as it once the device is closed.
C5_HooksOnEdges ==
  /\ (lastOp.op = "open" /\ "open" \in hooks /\ lastOp.hook # "err") =>
       (lastOp.hook = "ok" <=> (lastOp.ret = "OK" /\ crefs = 1))
  /\ (lastOp.op = "close" /\ "close" \in hooks /\ lastOp.hook # "err") =>
       (lastOp.hook = "ok" <=> (lastOp.ret = "OK" /\ crefs = 0))
  /\ (hooks = AllHooks /\ hwcalls.failed = 0) =>
       hwcalls.open - hwcalls.close = (IF crefs > 0 THEN 1 ELSE 0)

\* Two opens and then two closes: one open hook, one close hook.
C5_Witness ==
  /\ lastOp.op = "close"
  /\ lastOp.hook = "ok"
  /\ crefs = 0
  /\ hwcalls = [open |-> 1, close |-> 1, failed |-> 0]
  /\ \A f \in Files : ~Opened(f)

\* C6: a waiter whose teardown has completed is never signalled again:
\* every handle a step signals is set up at that moment, in the entry of
\* the scanned surface that its fds->priv points to.
C6_NoSignalAfterTeardown ==
  \A h \in lastOp.sig :
    /\ pollfd_priv[h] # NULLP
    /\ pollfd_priv[h][1] = lastOp.slot
    /\ fds[pollfd_priv[h][1]][pollfd_priv[h][2]] = h

\* A teardown completed on the surface the armed watchdog will scan,
\* which still has another waiter owed the signal.
C6_Witness ==
  /\ lastOp.op = "poll_teardown"
  /\ lastOp.info = 1
  /\ wdog.active
  /\ wdog.arg = lastOp.slot
  /\ owed[lastOp.slot] # {}

\* C7: whenever the driver signals "writable" to a waiter of a surface,
\* that surface's pan queue is not full at the instant of the signal.
C7_SignalImpliesNotFull ==
  lastOp.sig # {} => ~Full(lastOp.slot)

\* C8: a successful poll setup registers the waiter and signals it at once
\* if and only if the selected surface's queue is not full, and signals
\* nobody else.
C8_SetupSignal ==
  (lastOp.op = "poll_setup" /\ lastOp.ret = "OK") =>
    /\ pollfd_priv[lastOp.h] # NULLP
    /\ pollfd_priv[lastOp.h][1] = lastOp.slot
    /\ lastOp.h \in Waiters(lastOp.slot)
    /\ lastOp.sig = (IF Full(lastOp.slot) THEN {} ELSE {lastOp.h})

\* A setup on a surface that has another waiter and room in its queue.
C8_Witness ==
  /\ lastOp.op = "poll_setup"
  /\ lastOp.ret = "OK"
  /\ ~Full(lastOp.slot)
  /\ Cardinality(Waiters(lastOp.slot)) = 2
  /\ lastOp.sig = {lastOp.h}

\* C9: a poll setup on a surface whose N entries are all taken fails with
\* Busy and changes neither the waiter arrays nor the caller's handle, nor
\* signals anybody; it succeeds whenever the selected surface has an empty
\* entry, whatever the other surfaces hold.
C9_BusyOnlyWhenFull ==
  [][lastOp'.op = "poll_setup" =>
       LET id == f_priv[1][1] + 1
       IN  /\ lastOp'.slot = id
           /\ IF \A i \in Entries : fds[id][i] # NULL
                THEN /\ lastOp'.ret = "EBUSY"
                     /\ lastOp'.sig = {}
                     /\ fds' = fds
                     /\ pollfd_priv' = pollfd_priv
                ELSE /\ lastOp'.ret = "OK"
                     /\ pollfd_priv'[lastOp'.h] # NULLP]_vars

\* A setup succeeded on a surface while every entry of another is taken.
C9_Witness ==
  /\ lastOp.op = "poll_setup"
  /\ lastOp.ret = "OK"
  /\ \E id \in Slots :
       id # lastOp.slot /\ \A i \in Entries : fds[id][i] # NULL

\* C10: a peek changes neither the queues nor the waiter arrays and
\* notifies nobody; after a successful enqueue of r on an empty surface it
\* returns r, and two peeks in a row return the same.
C10_PeekReadsOnly ==
  [][lastOp'.op = "peek" =>
       /\ buf' = buf
       /\ fds' = fds
       /\ pollfd_priv' = pollfd_priv
       /\ wdog' = wdog
       /\ dq' = dq
       /\ lastOp'.sig = {}
       /\ (/\ lastOp.op \in PanOps
           /\ lastOp.ret = "OK"
           /\ lastOp.slot = lastOp'.slot
           /\ Used(lastOp.slot) = 1) =>
            (lastOp'.ret = "OK" /\ lastOp'.info = lastOp.info)
       /\ (lastOp.op = "peek" /\ lastOp.slot = lastOp'.slot) =>
            (lastOp'.ret = lastOp.ret /\ lastOp'.info = lastOp.info)]_vars

\* A peek returned the one record of a surface that has a waiter.
C10_Witness ==
  /\ lastOp.op = "peek"
  /\ lastOp.ret = "OK"
  /\ Used(lastOp.slot) = 1
  /\ lastOp.info = Head(buf[lastOp.slot].q)
  /\ Waiters(lastOp.slot) # {}

\* C11 as stated: a successful enqueue of r on an empty surface followed by
\* a dequeue on it takes the count down by exactly one, and the dequeue
\* hands r back to its caller.
C11_DequeueReturnsRecord ==
  [][/\ (/\ lastOp.op \in PanOps
         /\ lastOp.ret = "OK"
         /\ lastOp'.op = "skip"
         /\ lastOp'.slot = lastOp.slot) =>
          Used(lastOp.slot)' = Used(lastOp.slot) - 1
     /\ (/\ lastOp.op = "skip"
         /\ lastOp'.op = "remove"
         /\ lastOp'.ret = "OK") =>
          lastOp'.info = lastOp.info]_vars

\* C11, amended: a successful enqueue of r followed by a dequeue on the
\* same surface takes the count down by exactly one; the record that
\* leaves the queue is r when the surface was empty before the enqueue,
\* and the dequeue returns OK and no record to its caller.
C11_DequeueSkipsRecord ==
  [][/\ (/\ lastOp.op \in PanOps
         /\ lastOp.ret = "OK"
         /\ lastOp'.op = "skip"
         /\ lastOp'.slot = lastOp.slot) =>
          /\ Used(lastOp.slot)' = Used(lastOp.slot) - 1
          /\ Used(lastOp.slot) = 1 =>
               /\ buf[lastOp.slot].q = <<lastOp.info>>
               /\ lastOp'.info = lastOp.info
               /\ buf'[lastOp.slot].q = <<>>
     /\ (/\ lastOp.op = "skip"
         /\ lastOp'.op = "remove"
         /\ lastOp'.ret = "OK") =>
          /\ lastOp'.info = NULL
          /\ buf' = buf]_vars

\* A dequeue returned OK and left a two-buffer surface empty.
C11_Witness ==
  /\ lastOp.op = "remove"
  /\ lastOp.ret = "OK"
  /\ Used(lastOp.slot) = 0
  /\ buf[lastOp.slot].size = 2

\* C12: peek and dequeue on a registered surface with no pending record
\* fail with QueueEmpty (-ENOSPC), change neither the queues nor the waiter
\* arrays, and the failed dequeue signals nobody, arms no watchdog and
\* leaves no notification to come.
C12_EmptyQueueFails ==
  [][(/\ vtable_priv
      /\ lastOp'.slot \in 0 .. paninfo_count - 1
      /\ Used(lastOp'.slot) = 0) =>
       /\ lastOp'.op = "peek" =>
            /\ lastOp'.ret = "ENOSPC"
            /\ lastOp'.sig = {}
            /\ UNCHANGED <<buf, fds, pollfd_priv, wdog, dq>>
       /\ (lastOp'.op \in {"skip", "remove"} /\ dq = <<>>) =>
            /\ lastOp'.op = "remove"
            /\ lastOp'.ret = "ENOSPC"
            /\ lastOp'.sig = {}
            /\ UNCHANGED <<buf, fds, pollfd_priv, wdog, dq>>]_vars

\* A dequeue failed on an empty surface that has a waiter, with a vsync
\* offset set and the watchdog idle.
C12_Witness ==
  /\ lastOp.op = "remove"
  /\ lastOp.ret = "ENOSPC"
  /\ lastOp.slot \in 0 .. paninfo_count - 1
  /\ vsyncoffset > 0
  /\ Waiters(lastOp.slot) # {}
  /\ ~wdog.active

\* C14: a registered device has 1 + overlay_count slots; a queue call whose
\* overlay is in [-1, overlay_count - 1] acts on slot overlay + 1 and on
\* no other, and one whose overlay is outside that range fails with
\* InvalidArgument (-EINVAL) without touching any slot.
C14_SlotResolution ==
  [][(vtable_priv /\ lastOp'.op \in QueueCalls \cup PanOps \cup {"skip"}) =>
       /\ reg.inited = paninfo_count
       /\ IF lastOp'.slot \in 0 .. paninfo_count - 1
            THEN \A id \in Slots \ {lastOp'.slot} : buf'[id] = buf[id]
            ELSE /\ lastOp'.ret = "EINVAL"
                 /\ ~panic'
                 /\ ~wild'
                 /\ UNCHANGED <<buf, fds>>]_vars

\* C15: enqueue, peek, dequeue and pending_count on a vtable whose
\* back-reference is unset fail with InvalidArgument (-EINVAL), change no
\* state and signal nobody.
C15_UnsetBackReference ==
  [][(~vtable_priv /\ lastOp'.op \in QueueCalls \cup PanOps \cup {"skip"}) =>
       /\ lastOp'.ret = "EINVAL"
       /\ lastOp'.sig = {}
       /\ ~panic'
       /\ ~wild'
       /\ UNCHANGED <<buf, fds, pollfd_priv, vsyncoffset, wdog, dq, owed,
                      crefs, f_priv, paninfo_count, vtable_priv>>]_vars

\* A pan failed with -EINVAL between register_driver() and the setting of
\* vtable->priv, on a surface that has a waiter.
C15_Witness ==
  /\ lastOp.op \in PanOps
  /\ lastOp.ret = "EINVAL"
  /\ ~vtable_priv
  /\ devnode
  /\ Waiters(lastOp.slot) # {}

\* C16: fb_register_device returns OK only when the device was fully
\* constructed and registered; a failing allocation (of the instance or of
\* the slot array) returns OutOfMemory (-ENOMEM), and a failing
\* getvideoinfo, per-slot info query or register_driver() returns that
\* failure's negative error.
C16_NoSuccessOnFailure ==
  lastOp.op = "register" =>
    /\ lastOp.ret = "OK" <=> reg.step = "done"
    /\ reg.step \in AllocSteps => lastOp.ret = "ENOMEM"
    /\ reg.step \in QuerySteps =>
         (lastOp.ret \in HwErrors /\ lastOp.ret = lastOp.hook)

\* C17: when fb_register_device fails, the ring buffers initialised so far
\* (slots 0 .. i-1) are destroyed once each, last first, and no other; the
\* slot array and the instance, where allocated, are freed once; and
\* vtable->priv stays unset with no device node registered.
C17_UnwindExact ==
  reg.step \in AllocSteps \cup QuerySteps =>
    /\ \A id \in Slots :
         Cardinality({k \in DOMAIN reg.uninit : reg.uninit[k] = id}) =
           IF id < reg.inited THEN 1 ELSE 0
    /\ \A k \in DOMAIN reg.uninit : reg.uninit[k] = reg.inited - k
    /\ reg.free_paninfo =
         IF reg.step \in {"panelinfo", "register_driver"} THEN 1 ELSE 0
    /\ reg.free_fb = IF reg.step = "fb_alloc" THEN 0 ELSE 1
    /\ ~vtable_priv
    /\ ~devnode

\* The info query of slot 1 failed and the one initialised ring buffer,
\* slot 0, was destroyed.
C17_Witness ==
  /\ reg.step = "panelinfo"
  /\ reg.inited = 1
  /\ reg.uninit = <<0>>
  /\ reg.free_paninfo = 1

\* C13: a close at reference count 1 whose hardware close hook fails
\* returns the hook's error and leaves the count and every per-open-file
\* state as they were (the file stays open and can be closed again); any
\* other close returns OK, lowers the count by exactly one and frees the
\* state of exactly one open file.
C13_CloseFailureKeepsState ==
  [][lastOp'.op = "close" =>
       IF crefs = 1 /\ "close" \in hooks /\ lastOp'.hook = "err"
         THEN /\ lastOp'.ret \in HwErrors
              /\ UNCHANGED <<crefs, f_priv>>
         ELSE /\ lastOp'.ret = "OK"
              /\ crefs' = crefs - 1
              /\ \E f \in Files :
                   /\ f_priv[f] # NULLP
                   /\ f_priv' = [f_priv EXCEPT ![f] = NULLP]]_vars

\* The close hook failed once at count 1 and the close, tried again,
\* succeeded: one open hook, two close hooks, nothing left open.
C13_Witness ==
  /\ lastOp.op = "close"
  /\ lastOp.ret = "OK"
  /\ lastOp.hook = "ok"
  /\ crefs = 0
  /\ hwcalls = [open |-> 1, close |-> 2, failed |-> 1]
  /\ \A f \in Files : ~Opened(f)

C19_HardwareErrorReturned ==
  /\ (lastOp.op \in QueryCmds \cup SetCmds /\ lastOp.hook \in HwErrors) =>
       lastOp.ret = lastOp.hook
  /\ (lastOp.op \in PanOps /\ lastOp.hook = "err") =>
       lastOp.ret \in HwErrors

\* C20: a query command returns NotSupported (-ENOTSUP) when the vtable
\* lacks its operation and InvalidArgument (-EINVAL) when its output
\* pointer is NULL, as a return value (no assertion, no use of a NULL
\* pointer) and without calling any hardware operation.
C20_QueryRejects ==
  lastOp.op \in QueryCmds =>
    /\ ~Present(IoctlOp(lastOp.op)) =>
         /\ lastOp.ret = "ENOTSUP"
         /\ lastOp.hook = "none"
         /\ ~panic
         /\ ~wild
    /\ (Present(IoctlOp(lastOp.op)) /\ lastOp.info = NULL) =>
         /\ lastOp.ret = "EINVAL"
         /\ lastOp.hook = "none"
         /\ ~panic
         /\ ~wild

\* C21: FBIO_SELECT_OVERLAY sets the calling file's selected overlay to the
\* requested value exactly when getoverlayinfo() for that value succeeds;
\* when it fails the error is returned and the caller's selection stays;
\* either way every other file's selection stays; and a file that has just
\* been opened selects FB_NO_OVERLAY.
C21_SelectOnlyOnSuccess ==
  [][/\ lastOp'.op = "select" =>
          /\ lastOp'.ret = "OK" =>
               f_priv'[lastOp'.h] = <<lastOp'.slot - 1>>
          /\ lastOp'.ret # "OK" =>
               (lastOp'.ret = "EINVAL" /\ f_priv'[lastOp'.h] = f_priv[lastOp'.h])
          /\ \A f \in Files \ {lastOp'.h} : f_priv'[f] = f_priv[f]
     /\ \A f \in Files :
          (~Opened(f) /\ Opened(f)') => f_priv'[f] = <<FB_NO_OVERLAY>>]_vars

\* A select failed for a file that had selected the last overlay, which
\* it still selects, while another file is open with no overlay selected.
C21_Witness ==
  /\ lastOp.op = "select"
  /\ lastOp.ret = "EINVAL"
  /\ lastOp.slot = MaxOverlays + 1
  /\ f_priv[lastOp.h] = <<LastOverlay>>
  /\ \E f \in Files \ {lastOp.h} : f_priv[f] = <<FB_NO_OVERLAY>>

\* C22: FBIOGET_VSCREENINFO and FBIOGET_FSCREENINFO call getvideoinfo and
\* then getplaneinfo; when a sub-query fails the command returns that
\* sub-query's error, calls no later sub-query and leaves the caller's
\* structure unwritten.
C22_AggregateAbortsOnFirstError ==
  (lastOp.op \in ScreenCmds /\ ~panic) =>
    /\ Len(out.calls) \in 1 .. 2
    /\ \A k \in DOMAIN out.calls :
         out.calls[k].op = <<"getvideoinfo", "getplaneinfo">>[k]
    /\ \A k \in 1 .. Len(out.calls) - 1 : out.calls[k].ret = "OK"
    /\ lastOp.ret = out.calls[Len(out.calls)].ret
    /\ lastOp.ret # "OK" => ~out.written
    /\ lastOp.ret = "OK" => Len(out.calls) = 2

\* getvideoinfo() succeeded, getplaneinfo() failed: its error came back
\* and nothing was written.
C22_Witness ==
  /\ lastOp.op = "FBIOGET_VSCREENINFO"
  /\ Len(out.calls) = 2
  /\ out.calls[2].ret = "EIO"
  /\ lastOp.ret = "EIO"
  /\ ~out.written

\* C23: the channel layout FBIOGET_VSCREENINFO reports is fixed by the
\* pixel format: Y1 length 1 at offset 0 for R/G/B; Y8 length 8 at offset
\* 0; RGB16_555 lengths 5/5/5 at 10/5/0; RGB16_565 lengths 5/6/5 at
\* 11/5/0; RGB24 and RGB32 lengths 8/8/8 at 16/8/0 with a zero transp
\* field; RGBA32 8-bit fields at 16/8/0/24; any other format all zero.
C23_ChannelLayout ==
  (lastOp.op = "FBIOGET_VSCREENINFO" /\ out.written) =>
    LET d == out.data
        Rgb(ro, rl, go, gl, bo, bl) ==
          /\ d.red = [offset |-> ro, length |-> rl]
          /\ d.green = [offset |-> go, length |-> gl]
          /\ d.blue = [offset |-> bo, length |-> bl]
        NoTransp == d.transp = [offset |-> 0, length |-> 0]
    IN  /\ out.fmt = "FB_FMT_Y1" => (Rgb(0, 1, 0, 1, 0, 1) /\ NoTransp)
        /\ out.fmt = "FB_FMT_Y8" => (Rgb(0, 8, 0, 8, 0, 8) /\ NoTransp)
        /\ out.fmt = "FB_FMT_RGB16_555" =>
             (Rgb(10, 5, 5, 5, 0, 5) /\ NoTransp)
        /\ out.fmt = "FB_FMT_RGB16_565" =>
             (Rgb(11, 5, 5, 6, 0, 5) /\ NoTransp)
        /\ out.fmt \in {"FB_FMT_RGB24", "FB_FMT_RGB32"} =>
             (Rgb(16, 8, 8, 8, 0, 8) /\ NoTransp)
        /\ out.fmt = "FB_FMT_RGBA32" =>
             (Rgb(16, 8, 8, 8, 0, 8)
              /\ d.transp = [offset |-> 24, length |-> 8])
        /\ out.fmt \notin NamedFormats =>
             (Rgb(0, 0, 0, 0, 0, 0) /\ NoTransp)

\* FBIOGET_VSCREENINFO filled the structure for RGB16_565.
C23_Witness ==
  /\ lastOp.op = "FBIOGET_VSCREENINFO"
  /\ lastOp.ret = "OK"
  /\ out.written
  /\ out.fmt = "FB_FMT_RGB16_565"
  /\ out.data.green.length = 6

C26_SeekPosition ==
  [][lastOp'.op = "seek" =>
       LET f      == lastOp'.h
           p      == f_pos[f]
           L      == fblen[lastOp'.slot]
           offset == out'.offset
           whence == out'.whence
           newpos == CASE whence = "SEEK_SET" -> offset
                       [] whence = "SEEK_CUR" -> p + offset
                       [] whence = "SEEK_END" -> L + offset
                       [] OTHER               -> 0 - 1
           failed == whence = "SEEK_END" /\ out'.calls[1].ret # "OK"
       IN  /\ lastOp'.slot = SlotOf(f)
           /\ \A g \in Files \ {f} : f_pos'[g] = f_pos[g]
           /\ IF failed
                THEN /\ lastOp'.ret = out'.calls[1].ret
                     /\ f_pos' = f_pos
                ELSE IF newpos < 0
                  THEN /\ lastOp'.ret = "EINVAL"
                       /\ f_pos' = f_pos
                  ELSE /\ lastOp'.ret = "OK"
                       /\ lastOp'.info = newpos
                       /\ f_pos'[f] = newpos]_vars

\* A SEEK_END with a positive offset moved the position of a file that was
\* elsewhere beyond the end of a framebuffer that is not empty.
C26_Witness ==
  /\ lastOp.op = "seek"
  /\ lastOp.ret = "OK"
  /\ out.whence = "SEEK_END"
  /\ out.offset = 1
  /\ fblen[lastOp.slot] > 0
  /\ f_pos[lastOp.h] = fblen[lastOp.slot] + 1

C28_VsyncOffsetOnlyLater ==
  [][/\ lastOp'.op = "vsyncoffset" =>
          /\ wdog' = wdog
          /\ lastOp'.sig = {}
          /\ UNCHANGED <<buf, fifo, fds, pollfd_priv, owed, dq>>
     /\ (dq # <<>> /\ dq' = <<>> /\ lastOp'.op = "remove") =>
          IF vsyncoffset = 0
            THEN /\ lastOp'.sig = Waiters(dq[1])
                 /\ wdog' = wdog
            ELSE /\ lastOp'.sig = {}
                 /\ wdog' = [active |-> TRUE, arg |-> dq[1],
                             lag |-> vsyncoffset]]_vars

\* The offset was set to 0 while the watchdog, armed under the earlier
\* offset, had its whole delay still to run.
C28_Witness ==
  /\ lastOp.op = "vsyncoffset"
  /\ vsyncoffset = 0
  /\ wdog.active
  /\ wdog.lag = MaxTicks
  /\ owed[wdog.arg] # {}

\* C29: with a vsync offset of 0, nothing comes between the removal of the
\* record and the signalling of the surface's waiters: while a dequeue has
\* removed its record and not yet notified, no enqueue, poll setup or poll
\* teardown acts on that surface.
C29_RemovalAndWakeAtomic ==
  [][(dq # <<>> /\ vsyncoffset = 0) =>
       ~ /\ lastOp'.op \in {"pan_display", "pan_overlay", "poll_setup",
                            "poll_teardown"}
         /\ lastOp'.ret = "OK"
         /\ lastOp'.slot = dq[1]]_vars

\* C30: with a vsync offset that is not 0, the dequeues of a surface made
\* before the callback fires lead to exactly one firing for that surface,
\* one delay after the last of them: each such dequeue arms the watchdog
\* for its surface with the whole delay, a notification armed for a
\* surface stays armed for it until it fires for it, and the firing
\* disarms the watchdog.
C30_OneFiringPerSurface ==
  [][/\ (dq # <<>> /\ dq' = <<>> /\ lastOp'.op = "remove"
          /\ vsyncoffset > 0) =>
          wdog' = [active |-> TRUE, arg |-> dq[1], lag |-> vsyncoffset]
     /\ (wdog.active /\ vtable_priv) =>
          \/ wdog'.active /\ wdog'.arg = wdog.arg
          \/ lastOp'.op = "wdog" /\ lastOp'.slot = wdog.arg
     /\ lastOp'.op = "wdog" => (wdog.lag = 0 /\ ~wdog'.active)]_vars

\* C31: a deferred notification belongs to one surface: the dequeue of
\* another surface of the device, made while the notification is armed,
\* leaves it armed for its own surface with its deadline, and a firing
\* signals only waiters of the surface whose dequeue armed it.
C31_DeferredPerSurface ==
  [][/\ (/\ wdog.active
          /\ dq # <<>>
          /\ dq' = <<>>
          /\ lastOp'.op = "remove"
          /\ dq[1] # wdog.arg) =>
          (wdog'.active /\ wdog'.arg = wdog.arg /\ wdog'.lag = wdog.lag)
     /\ lastOp'.op = "wdog" =>
          (lastOp'.slot = wdog.arg /\ lastOp'.sig \subseteq Waiters(wdog.arg))
    ]_vars

\* The waiter arrays and the handles agree: an entry is empty or holds a
\* handle whose fds->priv points back at that entry, and a handle that is
\* set up is in the entry it points to.
WaiterTableSound ==
  /\ \A id \in Slots, i \in Entries :
       fds[id][i] # NULL => pollfd_priv[fds[id][i]] = <<id, i>>
  /\ \A h \in Handles :
       pollfd_priv[h] # NULLP => fds[pollfd_priv[h][1]][pollfd_priv[h][2]] = h

\* C34: every entry of every waiter array is empty or holds the handle of
\* one waiter that is set up and not torn down, and no handle is in two
\* entries; a successful setup stores the handle in the lowest empty entry
\* of the surface the file selects at that moment and changes no other
\* entry; a teardown empties the entry the handle occupies and no other,
\* also when the file selects another surface by then.
C34_WaiterEntries ==
  [][/\ WaiterTableSound'
     /\ (lastOp'.op = "poll_setup" /\ lastOp'.ret = "OK") =>
          LET id   == SlotOf(1)
              free == {i \in Entries : fds[id][i] = NULL}
              low  == CHOOSE i \in free : \A j \in free : i <= j
          IN  /\ free # {}
              /\ fds' = [fds EXCEPT ![id][low] = lastOp'.h]
              /\ pollfd_priv' =
                   [pollfd_priv EXCEPT ![lastOp'.h] = <<id, low>>]
     /\ lastOp'.op = "poll_teardown" =>
          LET h == lastOp'.h
          IN  IF pollfd_priv[h] = NULLP
                THEN fds' = fds /\ pollfd_priv' = pollfd_priv
                ELSE /\ fds' = [fds EXCEPT
                                 ![pollfd_priv[h][1]][pollfd_priv[h][2]] =
                                   NULL]
                     /\ pollfd_priv' = [pollfd_priv EXCEPT ![h] = NULLP]
     /\ lastOp'.op \notin {"poll_setup", "poll_teardown", "register"} =>
          (fds' = fds /\ pollfd_priv' = pollfd_priv)]_vars

\* A teardown emptied the first entry of a surface the file no longer
\* selects, and the waiter in the second entry stayed.
C34_Witness ==
  /\ lastOp.op = "poll_teardown"
  /\ lastOp.info = 1
  /\ lastOp.slot # SlotOf(1)
  /\ fds[lastOp.slot][1] = NULL
  /\ fds[lastOp.slot][2] # NULL
  /\ pollfd_priv[lastOp.h] = NULLP

\* C35: vtable->priv is set before the device can be reached: whenever the
\* device node is registered the back-reference is set, and no pan command
\* issued through an opened file returns -EINVAL for want of it.
C35_BoundBeforeReachable ==
  /\ devnode => vtable_priv
  /\ (lastOp.op \in PanOps /\ ~vtable_priv) => lastOp.ret # "EINVAL"

\* C33: concurrent opens and closes are serialised by fb->lock: whenever
\* the lock is free no task is inside a call, the reference count is not
\* negative and equals the number of files that have a per-open-file
\* state, and, on hardware with both hooks, the open hook has succeeded
\* once more often than the close hook exactly when the count is above 0
\* and as often otherwise; so two opens racing on a closed device call the
\* open hook with success once.
C33_LockSerialisesOpenClose ==
  /\ \A t \in Files : thr[t].pc \notin {"idle", "lock"} => lock = t
  /\ lock = 0 =>
       /\ crefs >= 0
       /\ crefs = Cardinality({f \in Files : Opened(f)})
       /\ \A t \in Files : thr[t].arg = 0
       /\ hooks = AllHooks => hwopen = (IF crefs > 0 THEN 1 ELSE 0)

\* Two opens race on the closed device: one has called the hook and
\* counted itself and is about to unlock, the other has been waiting for
\* the lock since before the first took it.
C33_Witness ==
  /\ hooks = AllHooks
  /\ hwcalls = [open |-> 1, close |-> 0, failed |-> 0]
  /\ crefs = 1
  /\ \E t, u \in Files :
       /\ lock = t
       /\ thr[t].op = "open"
       /\ thr[t].pc = "unlock"
       /\ thr[t].hook = "ok"
       /\ thr[u].op = "open"
       /\ thr[u].pc = "lock"

\* C36: an open whose state cannot be allocated returns -ENOMEM, and an
\* open at reference count 0 whose hardware open hook fails returns the
\* hook's error; either leaves the count as it was, leaves no per-open-file
\* state allocated or attached to the file and releases fb->lock; the
\* count being still 0, the next open calls the hook again.
C36_OpenFailureUndone ==
  [][\A t \in Files :
       /\ (thr[t].pc \notin {"idle", "lock"} /\ thr'[t] = thr[t]) =>
            (crefs' = crefs /\ f_priv' = f_priv)
       /\ (/\ thr[t].op = "open"
           /\ thr[t].pc \in {"alloc", "hook"}
           /\ thr'[t].pc = "unlock") =>
            /\ crefs' = crefs
            /\ f_priv' = f_priv
            /\ thr'[t].arg = 0
            /\ IF thr[t].pc = "alloc"
                 THEN thr'[t].ret = "ENOMEM" /\ thr'[t].hook = "none"
                 ELSE /\ thr'[t].ret \in HwErrors
                      /\ thr'[t].hook = "err"
                      /\ crefs = 0
       /\ (/\ thr[t].op = "open"
           /\ thr[t].pc = "unlock"
           /\ thr[t].ret # "OK"
           /\ thr'[t].pc = "idle") =>
            /\ lock' = 0
            /\ lastOp'.op = "open"
            /\ lastOp'.ret = thr[t].ret
            /\ crefs' = crefs
            /\ f_priv'[t] = NULLP
       /\ (/\ thr[t].op = "open"
           /\ thr[t].pc = "hook"
           /\ thr'[t].pc # "hook"
           /\ crefs = 0
           /\ "open" \in hooks) =>
            thr'[t].hook \in {"ok", "err"}]_vars

\* An open returned OK after calling the hook with success, the hook
\* having failed for an earlier open.
C36_Witness ==
  /\ lastOp.op = "open"
  /\ lastOp.ret = "OK"
  /\ lastOp.hook = "ok"
  /\ hwcalls = [open |-> 2, close |-> 0, failed |-> 1]
  /\ crefs = 1
  /\ lock = 0

\* No record in a ring buffer is half copied, and the waiter arrays and
\* the handles' fds->priv agree.
Whole ==
  /\ \A id \in Slots : \A k \in 1 .. Len(buf[id].q) : buf[id].q[k] # TORN
  /\ WaiterTableSound

\* C32: every access to a ring buffer (enqueue, peek, dequeue, count, the
\* is-full test of poll setup) and to a waiter array (poll setup, poll
\* teardown, the notification's scan) is made inside the critical section:
\* a context between its entry and its leave holds it, so at most one
\* context is there at a time, and a context that begins its access finds
\* no half-written record and no half-written waiter entry.
C32_AccessesInCriticalSection ==
  /\ \A t \in Files : thr[t].pc \in {"first", "second", "leave"} => cs = t
  /\ \A t, u \in Files :
       (/\ thr[t].pc \in {"first", "second", "leave"}
        /\ thr[u].pc \in {"first", "second", "leave"}) => t = u
  /\ \A t \in Files : thr[t].pc = "first" => Whole
  /\ \A t \in Files :
       (thr[t].op = "peek" /\ thr[t].pc = "leave" /\ thr[t].ret = "OK")
         => thr[t].arg # TORN

\* A context has copied half a record into the ring buffer of a surface
\* that has a waiter, and holds the critical section while the other
\* contexts are outside.
C32_Witness ==
  \E u \in Files :
    /\ thr[u].op = "add"
    /\ thr[u].pc = "second"
    /\ cs = u
    /\ ~Whole
    /\ fds[thr[u].slot] # [i \in DOMAIN fds[thr[u].slot] |-> NULL]
    /\ \A t \in Files \ {u} : thr[t].pc = "idle"

\* C38: with the wrapping arithmetic of size_t, a read or a write of n
\* bytes at a position p below the framebuffer's length L, for every n up
\* to SIZE_MAX, transfers at most L - p bytes and touches only [p, L), and
\* a mapping is accepted only if offset + length, computed without
\* wrapping, is at most L.
C38_NoWrapPastEnd ==
  [][/\ (/\ lastOp'.op \in {"read", "write"}
         /\ lastOp'.ret = "OK"
         /\ out'.calls[1].ret = "OK"
         /\ f_pos[lastOp'.h] < fblen[lastOp'.slot]) =>
          /\ lastOp'.info <= fblen[lastOp'.slot] - f_pos[lastOp'.h]
          /\ ~wild'
     /\ (lastOp'.op = "mmap" /\ lastOp'.ret = "OK") =>
          out'.offset + lastOp'.info <= fblen[lastOp'.slot]]_vars

\* C37: the hardware's pan state and the queue stay in step: a pan command
\* on a surface whose hardware has the pan hook queues a record exactly
\* when the hook accepted the pan, so that a command which fails (the
\* queue was full, or the hook failed) has neither panned the hardware
\* without queuing a record nor queued a record for a pan the hardware
\* rejected.
C37_HookAndQueueInStep ==
  [][(/\ lastOp'.op \in PanOps
      /\ lastOp'.hook # "none"
      /\ vtable_priv
      /\ lastOp'.slot \in 0 .. paninfo_count - 1) =>
       /\ lastOp'.hook = "ok" <=>
            Len(buf'[lastOp'.slot].q) = Len(buf[lastOp'.slot].q) + 1
       /\ lastOp'.ret # "OK" =>
            (lastOp'.hook # "ok" /\ buf'[lastOp'.slot] = buf[lastOp'.slot])
       /\ lastOp'.hook = "err" => lastOp'.ret # "OK"]_vars

====
